---- MODULE Spec2Model ----
(***************************************************************************)
(* A model of ditherizer's palette-reduction pipeline:                     *)
(*   - src/src/lib/image/ditherClient.ts  (applyPaletteDitherClient)       *)
(*   - src/unnamed/part_002               (the worker's onmessage handler) *)
(*   - src/src/lib/image/dither.ts        (applyPaletteDither, Node)       *)
(*                                                                         *)
(* Numbers.  JavaScript numbers that need not be integers are held as      *)
(* exact fractions: a scale is held in hundredths (0.1 is 10, 1 is 100),   *)
(* a colour count in halves (1.5 is 3, 256 is 512), and the ordered        *)
(* dither's threshold in halves (-10.5 is -21).  Math.round(v) is          *)
(* floor(v + 0.5), ties toward +infinity.                                  *)
(*                                                                         *)
(* Buffers.  A Uint8ClampedArray is a function from 0..length-1 to 0..255, *)
(* indexed as the code indexes it.                                         *)
(*                                                                         *)
(* Optional values.  An omitted numeric or object option is None (<<>>)    *)
(* and a given one is Some(v) (<<v>>); an omitted string option is the     *)
(* string "undefined".                                                     *)
(***************************************************************************)
EXTENDS Integers, Sequences, FiniteSets, TLC

None == <<>>

Some(v) == <<v>>

\* `x ?? d` of the source.
OrElse(x, d) == IF x = None THEN d ELSE x[1]

Min(a, b) == IF a < b THEN a ELSE b

Max(a, b) == IF a > b THEN a ELSE b

\* The number of elements of a buffer (pixels.length).
Length(buf) == Cardinality(DOMAIN buf)

(***************************************************************************)
(* Bounds of the model.                                                    *)
(***************************************************************************)
\* Source images of the pipeline runs are 1..MaxW by 1..MaxH pixels.
MaxW == 3

MaxH == 2

\* Images handed to the helpers on their own are 1..UnitMaxW by 1..UnitMaxH.
UnitMaxW == 5

UnitMaxH == 5

\* Pixel patterns 0..MaxSeed fill the images.
MaxSeed == 2

(***************************************************************************)
(* Input images.                                                           *)
(***************************************************************************)
\* The eight RGBA pixels of the tests' samplePixels.
samplePixels ==
  <<255, 0, 0, 255,   0, 255, 0, 255,
    0, 0, 255, 255,   255, 255, 0, 255,
    0, 0, 0, 255,     255, 255, 255, 255,
    128, 128, 128, 255,   64, 64, 64, 255>>

\* Channel value k of pattern `seed`: pattern 0 repeats samplePixels, the
\* others are pseudo-random bytes (every channel, alpha included, varies).
Chan(seed, k) ==
  IF seed = 0 THEN samplePixels[(k % 32) + 1]
  ELSE ((k + 1) * (29 + 12 * seed) + 83 * seed + (k \div 4) * 7) % 256

\* new ImageData(data, width, height): length = width * height * 4.
ImageOf(w, h, seed) ==
  [width |-> w, height |-> h,
   data |-> [k \in 0..(w * h * 4 - 1) |-> Chan(seed, k)]]

(***************************************************************************)
(* ditherClient.ts: constants and helpers.                                 *)
(***************************************************************************)
DEFAULT_DISTANCE == "euclidean-bt709"

DITHER_ALGO == "floyd-steinberg"

NEAREST_ALGO == "nearest"

BAYER_4X4 ==
  <<<<0, 8, 2, 10>>,
    <<12, 4, 14, 6>>,
    <<3, 11, 1, 9>>,
    <<15, 7, 13, 5>>>>

\* BAYER_4X4[y % 4][x % 4], rows and columns counted from 0 as in the source.
BayerAt(y, x) == BAYER_4X4[(y % 4) + 1][(x % 4) + 1]

clamp(value, min, max) == Min(max, Max(min, value))

\* Math.round of a value held in halves: floor(v + 0.5).
RoundHalves(value2) == (value2 + 1) \div 2

\* clamp8 of a value held in halves: Math.max(0, Math.min(255, Math.round(v))).
clamp8(value2) == Max(0, Min(255, RoundHalves(value2)))

thresholdScale == 16

thresholdBias == 24

\* Twice the threshold of pixel (x, y):
\* (BAYER_4X4[y % 4][x % 4] / thresholdScale - 0.5) * thresholdBias.
Threshold2(y, x) ==
  ((2 * BayerAt(y, x) - thresholdScale) * thresholdBias) \div thresholdScale

\* orderedDither with the alpha channel biased like the colour channels.
orderedDitherBiasAlpha(pixels, width, height) ==
  [k \in DOMAIN pixels |->
     IF k < width * height * 4
     THEN LET p == k \div 4
              y == p \div width
              x == p % width
          IN clamp8(2 * pixels[k] + Threshold2(y, x))
     ELSE 0]

\* orderedDither with the matrix read as BAYER_4X4[x % 4][y % 4].
orderedDitherTransposed(pixels, width, height) ==
  [k \in DOMAIN pixels |->
     IF k < width * height * 4
     THEN LET p == k \div 4
              y == p \div width
              x == p % width
          IN IF k % 4 = 3 THEN pixels[k]
             ELSE clamp8(2 * pixels[k] + Threshold2(x, y))
     ELSE 0]

\* orderedDither: a fresh zero-filled buffer of pixels.length, of which the
\* loop over y < height, x < width writes the four channels at
\* index = (y * width + x) * 4.
orderedDither(pixels, width, height) ==
  [k \in DOMAIN pixels |->
     IF k < width * height * 4
     THEN LET p == k \div 4
              y == p \div width
              x == p % width
          IN IF k % 4 = 3 THEN pixels[k]
             ELSE clamp8(2 * pixels[k] + Threshold2(y, x))
     ELSE 0]

\* Math.round(dim * scale) for a scale held in hundredths: floor(v + 0.5).
RoundScaled(dim, scale) == (2 * dim * scale + 100) \div 200

\* Math.max(1, Math.floor(dim * scale)): truncation instead of rounding.
TargetDimTruncated(dim, scale) == Max(1, (dim * scale) \div 100)

\* Math.max(1, Math.round(dim * scale)), lines 97-98.
TargetDim(dim, scale) == Max(1, RoundScaled(dim, scale))

(***************************************************************************)
(* The host's canvas.  drawImage with imageSmoothingEnabled resamples the  *)
(* source onto the target; the filter is the host's, modelled as the box   *)
(* average of the source pixels a target pixel covers (the identity when   *)
(* the two sizes agree).                                                   *)
(***************************************************************************)
\* First and last source coordinate covered by target coordinate t.
SrcLo(t, n, tn) == (t * n) \div tn

SrcHi(t, n, tn) == Max(SrcLo(t, n, tn), (((t + 1) * n + tn - 1) \div tn) - 1)

RECURSIVE SumRow(_, _, _, _, _)
\* Sum of channel c over source pixels (x..xhi, y).
SumRow(img, c, y, x, xhi) ==
  IF x > xhi THEN 0
  ELSE img.data[(y * img.width + x) * 4 + c] + SumRow(img, c, y, x + 1, xhi)

RECURSIVE SumBox(_, _, _, _, _, _)
\* Sum of channel c over source pixels (xlo..xhi, y..yhi).
SumBox(img, c, y, yhi, xlo, xhi) ==
  IF y > yhi THEN 0
  ELSE SumRow(img, c, y, xlo, xhi) + SumBox(img, c, y + 1, yhi, xlo, xhi)

\* targetContext.drawImage(sourceCanvas, 0, 0, targetWidth, targetHeight)
\* followed by getImageData(0, 0, targetWidth, targetHeight).
drawImage(img, targetWidth, targetHeight) ==
  [width |-> targetWidth, height |-> targetHeight,
   data |->
     [k \in 0..(targetWidth * targetHeight * 4 - 1) |->
        LET c == k % 4
            p == k \div 4
            ty == p \div targetWidth
            tx == p % targetWidth
            xlo == SrcLo(tx, img.width, targetWidth)
            xhi == SrcHi(tx, img.width, targetWidth)
            ylo == SrcLo(ty, img.height, targetHeight)
            yhi == SrcHi(ty, img.height, targetHeight)
        IN SumBox(img, c, ylo, yhi, xlo, xhi)
             \div ((xhi - xlo + 1) * (yhi - ylo + 1))]]

\* A refused context answered by handing the image on as it is.
resizeImageDataFallback(imageData, scale, sourceContext, targetContext) ==
  LET targetWidth == TargetDim(imageData.width, scale)
      targetHeight == TargetDim(imageData.height, scale)
  IN IF ~sourceContext \/ ~targetContext
     THEN [ok |-> TRUE, imageData |-> imageData,
           width |-> imageData.width, height |-> imageData.height]
     ELSE [ok |-> TRUE,
           imageData |-> drawImage(imageData, targetWidth, targetHeight),
           width |-> targetWidth, height |-> targetHeight]

\* resizeImageData(imageData, scale); sourceContext and targetContext are the
\* host's answers to the two getContext('2d') calls (FALSE: null).
resizeImageData(imageData, scale, sourceContext, targetContext) ==
  LET targetWidth == TargetDim(imageData.width, scale)
      targetHeight == TargetDim(imageData.height, scale)
  IN IF ~sourceContext
     THEN [ok |-> FALSE, error |-> "Canvas context unavailable"]
     ELSE IF ~targetContext
     THEN [ok |-> FALSE, error |-> "Canvas context unavailable"]
     ELSE [ok |-> TRUE,
           imageData |-> drawImage(imageData, targetWidth, targetHeight),
           width |-> targetWidth, height |-> targetHeight]

\* The two neural quantizers exchanged.
resolveColorReductionSwapped(mode) ==
  CASE mode = "perceptual-plus" ->
         [paletteQuantization |-> "neuquant", colorDistanceFormula |-> None]
    [] mode = "perceptual" ->
         [paletteQuantization |-> "wuquant", colorDistanceFormula |-> Some("ciede2000")]
    [] mode = "selective" ->
         [paletteQuantization |-> "neuquant-float", colorDistanceFormula |-> None]
    [] mode = "restrictive" ->
         [paletteQuantization |-> "rgbquant", colorDistanceFormula |-> None]
    [] OTHER ->
         [paletteQuantization |-> "wuquant", colorDistanceFormula |-> None]

\* resolveColorReduction(mode): the quantizer and, for 'perceptual' only, a
\* distance formula (None when the returned object has no such field).
resolveColorReduction(mode) ==
  CASE mode = "perceptual-plus" ->
         [paletteQuantization |-> "neuquant-float", colorDistanceFormula |-> None]
    [] mode = "perceptual" ->
         [paletteQuantization |-> "wuquant", colorDistanceFormula |-> Some("ciede2000")]
    [] mode = "selective" ->
         [paletteQuantization |-> "neuquant", colorDistanceFormula |-> None]
    [] mode = "restrictive" ->
         [paletteQuantization |-> "rgbquant", colorDistanceFormula |-> None]
    [] OTHER ->
         [paletteQuantization |-> "wuquant", colorDistanceFormula |-> None]

(***************************************************************************)
(* image-q (an external library): buildPaletteSync and applyPaletteSync,   *)
(* modelled by their contracts.  A colour is <<r, g, b, a>>; a palette is  *)
(* a sequence of distinct colours.                                         *)
(***************************************************************************)
PixelAt(buf, p) == <<buf[4 * p], buf[4 * p + 1], buf[4 * p + 2], buf[4 * p + 3]>>

\* The colours of the first n pixels of a buffer.
ColorsOf(buf, n) == {PixelAt(buf, p) : p \in 0..(n - 1)}

\* Lexicographic order on colours.
ColorLess(c, d) ==
  \E i \in 1..4 : c[i] < d[i] /\ \A j \in 1..(i - 1) : c[j] = d[j]

RECURSIVE SortColors(_)
\* The colours of a set, in increasing order.
SortColors(S) ==
  IF S = {} THEN <<>>
  ELSE LET m == CHOOSE c \in S : \A d \in S \ {c} : ColorLess(c, d)
       IN <<m>> \o SortColors(S \ {m})

\* buildPaletteSync([pointContainer], {colors, ...}): at most `colors`
\* colours; here the first `colors` of the image's distinct colours.
buildPaletteSync(buf, width, height, colors) ==
  LET all == SortColors(ColorsOf(buf, width * height))
  IN SubSeq(all, 1, Min(Len(all), colors))

\* Squared distance of two colours.
Dist(c, d) ==
  (c[1] - d[1]) * (c[1] - d[1]) + (c[2] - d[2]) * (c[2] - d[2])
    + (c[3] - d[3]) * (c[3] - d[3]) + (c[4] - d[4]) * (c[4] - d[4])

\* The nearest palette entry of a colour, the first among equally near ones.
Nearest(palette, c) ==
  LET i == CHOOSE i \in 1..Len(palette) :
             \A j \in 1..Len(palette) :
               \/ Dist(palette[i], c) < Dist(palette[j], c)
               \/ Dist(palette[i], c) = Dist(palette[j], c) /\ i <= j
  IN palette[i]

\* imageQuantization 'nearest': every pixel becomes its nearest entry.
MapNearest(buf, width, height, palette) ==
  [k \in 0..(width * height * 4 - 1) |->
     Nearest(palette, PixelAt(buf, k \div 4))[(k % 4) + 1]]

\* The share of an error that goes to offset (dx, dy): 7/16 right, 3/16
\* below-left, 5/16 below, 1/16 below-right.
Weight(dx, dy) ==
  CASE dx = 1 /\ dy = 0 -> 7
    [] dx = -1 /\ dy = 1 -> 3
    [] dx = 0 /\ dy = 1 -> 5
    [] dx = 1 /\ dy = 1 -> 1
    [] OTHER -> 0

RECURSIVE Diffuse(_, _, _, _, _, _)
\* imageQuantization 'floyd-steinberg' from pixel p on: err holds the error
\* accumulated per channel index, out the pixels mapped so far.
Diffuse(buf, width, height, palette, p, st) ==
  IF p >= width * height THEN st.out
  ELSE LET x == p % width
           y == p \div width
           want == [i \in 1..4 |->
                      clamp(buf[4 * p + i - 1] + st.err[4 * p + i - 1], 0, 255)]
           got == Nearest(palette, want)
           share(k) ==
             LET q == k \div 4
                 dx == (q % width) - x
                 dy == (q \div width) - y
                 i == (k % 4) + 1
             IN ((want[i] - got[i]) * Weight(dx, dy)) \div 16
       IN Diffuse(buf, width, height, palette, p + 1,
                  [err |-> [k \in DOMAIN st.err |-> st.err[k] + share(k)],
                   out |-> [k \in DOMAIN st.out |->
                              IF k \div 4 = p THEN got[(k % 4) + 1] ELSE st.out[k]]])

MapDiffusion(buf, width, height, palette) ==
  Diffuse(buf, width, height, palette, 0,
          [err |-> [k \in 0..(width * height * 4 - 1) |-> 0],
           out |-> [k \in 0..(width * height * 4 - 1) |-> 0]])

\* applyPaletteSync(pointContainer, palette, {imageQuantization, ...})
\* followed by quantized.toUint8Array().
applyPaletteSync(buf, width, height, palette, imageQuantization) ==
  IF imageQuantization = DITHER_ALGO
  THEN MapDiffusion(buf, width, height, palette)
  ELSE MapNearest(buf, width, height, palette)

(***************************************************************************)
(* State.                                                                  *)
(*   uImage, uScale, uStep, uOut : a helper applied on its own to an       *)
(*       image (SpecUnit);                                                 *)
(*   imageData, options : the arguments of one pipeline request;           *)
(*   client : the run of applyPaletteDitherClient on them;                 *)
(*   worker, posted : the run of the worker's onmessage handler on the     *)
(*       same request, and the messages it has posted back;                *)
(*   nodeInput, nodeOptions, node : a call of applyPaletteDither (Node).   *)
(***************************************************************************)
VARIABLES uImage, uScale, uStep, uOut,
          imageData, options, client, worker, posted,
          nodeInput, nodeOptions, node,
          sourceFile, hook, hookRuns, urls, hookLog,
          app, appRuns, appLog

unitVars == <<uImage, uScale, uStep, uOut>>

pipeVars == <<imageData, options, client, worker, posted>>

nodeVars == <<nodeInput, nodeOptions, node>>

hookVars == <<sourceFile, hook, hookRuns, hookLog>>

appVars == <<app, appRuns, appLog>>

uiVars == <<hookVars, urls, appVars>>

vars == <<unitVars, pipeVars, nodeVars, uiVars>>

(***************************************************************************)
(* The inputs enumerated.                                                  *)
(***************************************************************************)
\* Scales in hundredths: 0.01, 0.05, 0.1, 0.15, 0.25, 0.33, 0.5, 0.75, 1,
\* 1.5 and 4.
UnitScales == {1, 5, 10, 15, 25, 33, 50, 75, 100, 150, 400}

\* options.scale: omitted, 0.05, 0.1, 0.15, 0.5, 1, 25.
ScaleOptions == {None, Some(5), Some(10), Some(15), Some(50), Some(100), Some(2500)}

\* options.maxColors in halves: -1, 0, 1, 1.5, 2.5, 4, 256, 256.5, 999.
MaxColorsOptions == {-2, 0, 2, 3, 5, 8, 512, 513, 1998}

DitherModes == {"undefined", "ordered", "diffusion", "none"}

\* "sepia" is a mode the switch does not recognise.
ColorReductions ==
  {"undefined", "perceptual", "perceptual-plus", "selective", "adaptive",
   "restrictive", "sepia"}

DistanceFormulas == {"undefined", "euclidean", "ciede2000"}

\* The option objects of the requests: every scale, every colour count with
\* and without error diffusion, every dither mode, and every reduction mode
\* with every distance formula.
OptionObjects ==
  {[maxColors |-> 8, scale |-> s, ditherMode |-> "undefined",
    colorReduction |-> "undefined", colorDistanceFormula |-> "undefined"] :
     s \in ScaleOptions}
  \cup
  {[maxColors |-> m, scale |-> Some(100), ditherMode |-> d,
    colorReduction |-> "selective", colorDistanceFormula |-> "undefined"] :
     m \in MaxColorsOptions, d \in {"none", "diffusion"}}
  \cup
  {[maxColors |-> 8, scale |-> Some(50), ditherMode |-> d,
    colorReduction |-> "adaptive", colorDistanceFormula |-> "undefined"] :
     d \in DitherModes}
  \cup
  {[maxColors |-> 8, scale |-> None, ditherMode |-> "ordered",
    colorReduction |-> r, colorDistanceFormula |-> f] :
     r \in ColorReductions, f \in DistanceFormulas}

PipelineImages ==
  {ImageOf(w, h, seed) : w \in 1..MaxW, h \in 1..MaxH, seed \in 0..Min(MaxSeed, 1)}

UnitImages ==
  {ImageOf(w, h, seed) : w \in 1..UnitMaxW, h \in 1..UnitMaxH, seed \in 0..MaxSeed}

(***************************************************************************)
(* applyPaletteDitherClient (ditherClient.ts, 144-190), a step per stage.  *)
(* pc: config -> resize -> source -> palette -> apply -> canvas -> encode  *)
(*     -> resolved, or rejected with `error` from resize, canvas, encode.  *)
(* stages lists the stages that have run, in order; contexts lists what    *)
(* the host answered to the getContext calls made, in order; paletteInput  *)
(* and mapInput are the buffers of the point container handed to           *)
(* buildPaletteSync and to applyPaletteSync; request numbers the message   *)
(* the run serves (the worker's messages are counted from 1).              *)
(***************************************************************************)
RunInit ==
  [pc |-> "config", scale |-> 0, maxColors |-> 0, ditherMode |-> "",
   colorReduction |-> "", paletteQuantization |-> "",
   colorDistanceFormula |-> "", resized |-> None, width |-> 0, height |-> 0,
   paletteSource |-> None, paletteArgs |-> None, palette |-> <<>>,
   quantArgs |-> None, outputPixels |-> None, result |-> None, error |-> "",
   stages |-> <<>>, contexts |-> <<>>, paletteInput |-> None,
   mapInput |-> None, request |-> 1]

\* The scale used as given: no clamp.
clientScaleUnclamped(opts) == OrElse(opts.scale, 100)

\* clamp(options.scale ?? 1, 0.1, 1), line 148.
clientScale(opts) == clamp(OrElse(opts.scale, 100), 10, 100)

\* The colour count clamped into [1, 256].
clientMaxColorsFloorOne(opts) == clamp(RoundHalves(opts.maxColors), 1, 256)

\* clamp(Math.round(options.maxColors), 2, 256), line 149.
clientMaxColors(opts) == clamp(RoundHalves(opts.maxColors), 2, 256)

\* options.ditherMode ?? 'ordered', line 150.
clientDitherMode(opts) ==
  IF opts.ditherMode = "undefined" THEN "ordered" ELSE opts.ditherMode

\* options.colorReduction ?? 'perceptual', line 151.
clientColorReduction(opts) ==
  IF opts.colorReduction = "undefined" THEN "perceptual" ELSE opts.colorReduction

\* The mode's formula taken before the caller's.
clientColorDistanceFormulaModeFirst(opts, reductionConfig) ==
  IF reductionConfig.colorDistanceFormula # None
  THEN reductionConfig.colorDistanceFormula[1]
  ELSE IF opts.colorDistanceFormula # "undefined" THEN opts.colorDistanceFormula
  ELSE DEFAULT_DISTANCE

\* options.colorDistanceFormula ?? reductionConfig.colorDistanceFormula
\*   ?? DEFAULT_DISTANCE, lines 154-155.
clientColorDistanceFormula(opts, reductionConfig) ==
  IF opts.colorDistanceFormula # "undefined" THEN opts.colorDistanceFormula
  ELSE OrElse(reductionConfig.colorDistanceFormula, DEFAULT_DISTANCE)

\* Lines 148-155.
ClientConfig ==
  /\ client.pc = "config"
  /\ LET reductionConfig == resolveColorReduction(clientColorReduction(options))
     IN client' =
          [client EXCEPT
             !.pc = "resize",
             !.scale = clientScale(options),
             !.maxColors = clientMaxColors(options),
             !.ditherMode = clientDitherMode(options),
             !.colorReduction = clientColorReduction(options),
             !.paletteQuantization = reductionConfig.paletteQuantization,
             !.colorDistanceFormula =
               clientColorDistanceFormula(options, reductionConfig)]
  /\ UNCHANGED <<imageData, options, worker, posted>>

\* Line 157: resizeImageData(imageData, scale), which throws when the host
\* refuses the source or the target context.
ClientResize ==
  /\ client.pc = "resize"
  /\ \E sourceContext \in BOOLEAN, targetContext \in BOOLEAN :
       LET r == resizeImageData(imageData, client.scale, sourceContext, targetContext)
           asked == IF sourceContext THEN <<TRUE, targetContext>> ELSE <<FALSE>>
       IN client' =
            IF r.ok
            THEN [client EXCEPT !.pc = "source",
                                !.resized = Some(r.imageData),
                                !.width = r.width,
                                !.height = r.height,
                                !.stages = Append(@, "resize"),
                                !.contexts = @ \o asked]
            ELSE [client EXCEPT !.pc = "rejected", !.error = r.error,
                                !.contexts = @ \o asked]
  /\ UNCHANGED <<imageData, options, worker, posted>>

\* The pre-bias applied in every mode.
paletteSourceAlwaysBiased(ditherMode, resized, width, height) ==
  [biased |-> TRUE, data |-> orderedDither(resized.data, width, height)]

\* Lines 159-160: the pre-biased buffer in 'ordered' mode, else resized.data.
paletteSource(ditherMode, resized, width, height) ==
  IF ditherMode = "ordered"
  THEN [biased |-> TRUE, data |-> orderedDither(resized.data, width, height)]
  ELSE [biased |-> FALSE, data |-> resized.data]

\* The pre-bias written over the resampled buffer it reads.
ClientPaletteSourceInPlace ==
  /\ client.pc = "source"
  /\ LET src == paletteSource(client.ditherMode, client.resized[1],
                              client.width, client.height)
     IN client' =
          [client EXCEPT !.pc = "palette",
                         !.resized = Some([client.resized[1] EXCEPT
                                             !.data = src.data]),
                         !.paletteSource = Some(src.data),
                         !.stages = IF src.biased
                                    THEN Append(@, "orderedDither") ELSE @]
  /\ UNCHANGED <<imageData, options, worker, posted>>

\* Lines 159-161.
ClientPaletteSource ==
  /\ client.pc = "source"
  /\ LET src == paletteSource(client.ditherMode, client.resized[1],
                              client.width, client.height)
     IN client' =
          [client EXCEPT !.pc = "palette",
                         !.paletteSource = Some(src.data),
                         !.stages = IF src.biased
                                    THEN Append(@, "orderedDither") ELSE @]
  /\ UNCHANGED <<imageData, options, worker, posted>>

\* The palette built from the resampled buffer in every mode.
ClientBuildPaletteFromResized ==
  /\ client.pc = "palette"
  /\ client' =
       [client EXCEPT
          !.pc = "apply",
          !.paletteArgs =
            Some([colors |-> client.maxColors,
                  paletteQuantization |-> client.paletteQuantization,
                  colorDistanceFormula |-> client.colorDistanceFormula]),
          !.paletteInput = Some(client.resized[1].data),
          !.palette = buildPaletteSync(client.resized[1].data, client.width,
                                       client.height, client.maxColors),
          !.stages = Append(@, "buildPalette")]
  /\ UNCHANGED <<imageData, options, worker, posted>>

\* Lines 163-167.
ClientBuildPalette ==
  /\ client.pc = "palette"
  /\ client' =
       [client EXCEPT
          !.pc = "apply",
          !.paletteArgs =
            Some([colors |-> client.maxColors,
                  paletteQuantization |-> client.paletteQuantization,
                  colorDistanceFormula |-> client.colorDistanceFormula]),
          !.paletteInput = client.paletteSource,
          !.palette = buildPaletteSync(client.paletteSource[1], client.width,
                                       client.height, client.maxColors),
          !.stages = Append(@, "buildPalette")]
  /\ UNCHANGED <<imageData, options, worker, posted>>

\* Line 171: ditherMode === 'diffusion' ? DITHER_ALGO : NEAREST_ALGO.
imageQuantization(ditherMode) ==
  IF ditherMode = "diffusion" THEN DITHER_ALGO ELSE NEAREST_ALGO

\* The unmapped palette source handed on as the output.
ClientApplyPaletteUnmapped ==
  /\ client.pc = "apply"
  /\ client' =
       [client EXCEPT
          !.pc = "canvas",
          !.quantArgs =
            Some([colorDistanceFormula |-> client.colorDistanceFormula,
                  imageQuantization |-> imageQuantization(client.ditherMode)]),
          !.mapInput = client.paletteSource,
          !.outputPixels = client.paletteSource,
          !.stages = Append(@, imageQuantization(client.ditherMode))]
  /\ UNCHANGED <<imageData, options, worker, posted>>

\* Lines 169-175.
ClientApplyPalette ==
  /\ client.pc = "apply"
  /\ client' =
       [client EXCEPT
          !.pc = "canvas",
          !.quantArgs =
            Some([colorDistanceFormula |-> client.colorDistanceFormula,
                  imageQuantization |-> imageQuantization(client.ditherMode)]),
          !.mapInput = client.paletteSource,
          !.outputPixels =
            Some(applyPaletteSync(client.paletteSource[1], client.width,
                                  client.height, client.palette,
                                  imageQuantization(client.ditherMode))),
          !.stages = Append(@, imageQuantization(client.ditherMode))]
  /\ UNCHANGED <<imageData, options, worker, posted>>

\* Lines 177-187: the output canvas and its context, putImageData, and the
\* call of canvas.toBlob.
ClientOutputCanvas ==
  /\ client.pc = "canvas"
  /\ \E outputContext \in BOOLEAN :
       client' =
         IF outputContext
         THEN [client EXCEPT !.pc = "encode",
                             !.contexts = Append(@, TRUE)]
         ELSE [client EXCEPT !.pc = "rejected",
                             !.error = "Canvas context unavailable",
                             !.contexts = Append(@, FALSE)]
  /\ UNCHANGED <<imageData, options, worker, posted>>

\* The result returned with the dimensions of the caller's picture.
ClientToBlobSourceSize ==
  /\ client.pc = "encode"
  /\ \E encoded \in BOOLEAN :
       client' =
         IF encoded
         THEN [client EXCEPT
                 !.pc = "resolved",
                 !.result =
                   Some([blob |-> [type |-> "image/png",
                                   width |-> client.width,
                                   height |-> client.height,
                                   data |-> client.outputPixels[1]],
                         width |-> imageData.width,
                         height |-> imageData.height])]
         ELSE [client EXCEPT !.pc = "rejected",
                             !.error = "Failed to encode image"]
  /\ UNCHANGED <<imageData, options, worker, posted>>

\* canvasToBlob's callback (130-139) and the return of line 189: the host
\* hands over the PNG blob, or null.
ClientToBlob ==
  /\ client.pc = "encode"
  /\ \E encoded \in BOOLEAN :
       client' =
         IF encoded
         THEN [client EXCEPT
                 !.pc = "resolved",
                 !.result =
                   Some([blob |-> [type |-> "image/png",
                                   width |-> client.width,
                                   height |-> client.height,
                                   data |-> client.outputPixels[1]],
                         width |-> client.width,
                         height |-> client.height])]
         ELSE [client EXCEPT !.pc = "rejected",
                             !.error = "Failed to encode image"]
  /\ UNCHANGED <<imageData, options, worker, posted>>

(***************************************************************************)
(* The worker (part_002): its own copies of the helpers, and the onmessage *)
(* handler (130-195), a step per stage.  Whatever the try block throws is  *)
(* caught and posted as {error: message}; a finished run posts             *)
(* {blob, width, height}.  A posted message is held as                     *)
(* [error, blob, width, height] with the absent fields None.               *)
(***************************************************************************)
\* BAYER_4X4 of part_002, 28-33.
workerBAYER_4X4 ==
  <<<<0, 8, 2, 10>>,
    <<12, 4, 14, 6>>,
    <<3, 11, 1, 9>>,
    <<15, 7, 13, 5>>>>

\* Twice (BAYER_4X4[y % 4][x % 4] / thresholdScale - 0.5) * thresholdBias,
\* with thresholdScale = 16 and thresholdBias = 24 (part_002, 45-53).
workerThreshold2(y, x) ==
  ((2 * workerBAYER_4X4[(y % 4) + 1][(x % 4) + 1] - 16) * 24) \div 16

\* orderedDither of part_002, 40-63.
workerOrderedDither(pixels, width, height) ==
  [k \in DOMAIN pixels |->
     IF k < width * height * 4
     THEN LET p == k \div 4
              y == p \div width
              x == p % width
          IN IF k % 4 = 3 THEN pixels[k]
             ELSE clamp8(2 * pixels[k] + workerThreshold2(y, x))
     ELSE 0]

\* resolveColorReduction of part_002, 65-90.
workerResolveColorReduction(mode) ==
  CASE mode = "perceptual-plus" ->
         [paletteQuantization |-> "neuquant-float", colorDistanceFormula |-> None]
    [] mode = "perceptual" ->
         [paletteQuantization |-> "wuquant", colorDistanceFormula |-> Some("ciede2000")]
    [] mode = "selective" ->
         [paletteQuantization |-> "neuquant", colorDistanceFormula |-> None]
    [] mode = "restrictive" ->
         [paletteQuantization |-> "rgbquant", colorDistanceFormula |-> None]
    [] OTHER ->
         [paletteQuantization |-> "wuquant", colorDistanceFormula |-> None]

\* resizeImageData of part_002, 92-125, on OffscreenCanvas.
workerResizeImageData(pixels, width, height, scale, sourceContext, targetContext) ==
  LET targetWidth == Max(1, RoundScaled(width, scale))
      targetHeight == Max(1, RoundScaled(height, scale))
      sourceImage == [width |-> width, height |-> height, data |-> pixels]
  IN IF ~sourceContext
     THEN [ok |-> FALSE, error |-> "Canvas context unavailable"]
     ELSE IF ~targetContext
     THEN [ok |-> FALSE, error |-> "Canvas context unavailable"]
     ELSE [ok |-> TRUE,
           imageData |-> drawImage(sourceImage, targetWidth, targetHeight),
           width |-> targetWidth, height |-> targetHeight]

\* The worker's scale clamped into [0.1, 4].
workerScaleWide(opts) == clamp(OrElse(opts.scale, 100), 10, 400)

\* clamp(options.scale ?? 1, 0.1, 1), part_002 line 137.
workerScale(opts) == clamp(OrElse(opts.scale, 100), 10, 100)

\* The colour count clamped from above only.
workerMaxColorsNoFloor(opts) == Min(256, RoundHalves(opts.maxColors))

\* clamp(Math.round(options.maxColors), 2, 256), part_002 line 138.
workerMaxColors(opts) == clamp(RoundHalves(opts.maxColors), 2, 256)

\* options.ditherMode ?? 'ordered', part_002 line 139.
workerDitherMode(opts) ==
  IF opts.ditherMode = "undefined" THEN "ordered" ELSE opts.ditherMode

\* options.colorReduction ?? 'perceptual', part_002 line 140.
workerColorReduction(opts) ==
  IF opts.colorReduction = "undefined" THEN "perceptual" ELSE opts.colorReduction

\* part_002, 143-146.
workerColorDistanceFormula(opts, reductionConfig) ==
  IF opts.colorDistanceFormula # "undefined" THEN opts.colorDistanceFormula
  ELSE OrElse(reductionConfig.colorDistanceFormula, DEFAULT_DISTANCE)

\* self.postMessage({ error: message }), line 193.
ErrorMessage(message) ==
  [error |-> Some(message), blob |-> None, width |-> None, height |-> None]

\* Lines 137-146.
WorkerConfig ==
  /\ worker.pc = "config"
  /\ LET reductionConfig ==
           workerResolveColorReduction(workerColorReduction(options))
     IN worker' =
          [worker EXCEPT
             !.pc = "resize",
             !.scale = workerScale(options),
             !.maxColors = workerMaxColors(options),
             !.ditherMode = workerDitherMode(options),
             !.colorReduction = workerColorReduction(options),
             !.paletteQuantization = reductionConfig.paletteQuantization,
             !.colorDistanceFormula =
               workerColorDistanceFormula(options, reductionConfig)]
  /\ UNCHANGED <<imageData, options, client, posted>>

\* Lines 148-153; a refused context is caught at 190-194.
WorkerResize ==
  /\ worker.pc = "resize"
  /\ \E sourceContext \in BOOLEAN, targetContext \in BOOLEAN :
       LET r == workerResizeImageData(imageData.data, imageData.width,
                                      imageData.height, worker.scale,
                                      sourceContext, targetContext)
       IN IF r.ok
          THEN /\ worker' = [worker EXCEPT !.pc = "source",
                                           !.resized = Some(r.imageData),
                                           !.width = r.width,
                                           !.height = r.height,
                                           !.stages = Append(@, "resize")]
               /\ posted' = posted
          ELSE /\ worker' = [worker EXCEPT !.pc = "failed", !.error = r.error]
               /\ posted' = Append(posted, ErrorMessage(r.error))
  /\ UNCHANGED <<imageData, options, client>>

\* Lines 155-163.
WorkerPaletteSource ==
  /\ worker.pc = "source"
  /\ worker' =
       [worker EXCEPT
          !.pc = "palette",
          !.paletteSource =
            Some(IF worker.ditherMode = "ordered"
                 THEN workerOrderedDither(worker.resized[1].data,
                                          worker.width, worker.height)
                 ELSE worker.resized[1].data),
          !.stages = IF worker.ditherMode = "ordered"
                     THEN Append(@, "orderedDither") ELSE @]
  /\ UNCHANGED <<imageData, options, client, posted>>

\* Lines 165-169.
WorkerBuildPalette ==
  /\ worker.pc = "palette"
  /\ worker' =
       [worker EXCEPT
          !.pc = "apply",
          !.paletteArgs =
            Some([colors |-> worker.maxColors,
                  paletteQuantization |-> worker.paletteQuantization,
                  colorDistanceFormula |-> worker.colorDistanceFormula]),
          !.paletteInput = worker.paletteSource,
          !.palette = buildPaletteSync(worker.paletteSource[1], worker.width,
                                       worker.height, worker.maxColors),
          !.stages = Append(@, "buildPalette")]
  /\ UNCHANGED <<imageData, options, client, posted>>

\* Lines 173-174: ditherMode === 'diffusion' ? DITHER_ALGO : NEAREST_ALGO.
workerImageQuantization(ditherMode) ==
  IF ditherMode = "diffusion" THEN DITHER_ALGO ELSE NEAREST_ALGO

\* Lines 171-178.
WorkerApplyPalette ==
  /\ worker.pc = "apply"
  /\ worker' =
       [worker EXCEPT
          !.pc = "canvas",
          !.quantArgs =
            Some([colorDistanceFormula |-> worker.colorDistanceFormula,
                  imageQuantization |-> workerImageQuantization(worker.ditherMode)]),
          !.mapInput = worker.paletteSource,
          !.outputPixels =
            Some(applyPaletteSync(worker.paletteSource[1], worker.width,
                                  worker.height, worker.palette,
                                  workerImageQuantization(worker.ditherMode))),
          !.stages = Append(@, workerImageQuantization(worker.ditherMode))]
  /\ UNCHANGED <<imageData, options, client, posted>>

\* A refused output context that ends the handler without a message.
WorkerOutputCanvasSilent ==
  /\ worker.pc = "canvas"
  /\ \E outputContext \in BOOLEAN :
       IF outputContext
       THEN /\ worker' = [worker EXCEPT !.pc = "encode"]
            /\ posted' = posted
       ELSE /\ worker' = [worker EXCEPT !.pc = "failed",
                                        !.error = "Canvas context unavailable"]
            /\ posted' = posted
  /\ UNCHANGED <<imageData, options, client>>

\* Lines 180-187: the output canvas and its context, putImageData, and the
\* call of convertToBlob.
WorkerOutputCanvas ==
  /\ worker.pc = "canvas"
  /\ \E outputContext \in BOOLEAN :
       IF outputContext
       THEN /\ worker' = [worker EXCEPT !.pc = "encode"]
            /\ posted' = posted
       ELSE /\ worker' = [worker EXCEPT !.pc = "failed",
                                        !.error = "Canvas context unavailable"]
            /\ posted' = Append(posted, ErrorMessage("Canvas context unavailable"))
  /\ UNCHANGED <<imageData, options, client>>

\* convertToBlob settles (127-128, 187): line 189 posts the result, or the
\* host's rejection is caught and its message posted.
WorkerConvertToBlob ==
  /\ worker.pc = "encode"
  /\ \E encoded \in BOOLEAN :
       IF encoded
       THEN LET blob == [type |-> "image/png",
                          width |-> worker.width,
                          height |-> worker.height,
                          data |-> worker.outputPixels[1]]
            IN /\ worker' =
                    [worker EXCEPT
                       !.pc = "posted",
                       !.result = Some([blob |-> blob,
                                        width |-> worker.width,
                                        height |-> worker.height])]
               /\ posted' = Append(posted,
                                   [error |-> None, blob |-> Some(blob),
                                    width |-> Some(worker.width),
                                    height |-> Some(worker.height)])
       ELSE /\ worker' = [worker EXCEPT !.pc = "failed",
                                        !.error = "EncodingError"]
            /\ posted' = Append(posted, ErrorMessage("EncodingError"))
  /\ UNCHANGED <<imageData, options, client>>

\* Messages handed to the worker one after the other.
MaxRequests == 2

\* The next message event: the handler (130-195) keeps nothing from one
\* message to the next, so it starts again from line 131 on the new
\* event.data: the same picture, with the same options or without dither.
WorkerMessage ==
  /\ worker.pc \in {"posted", "failed"}
  /\ worker.request < MaxRequests
  /\ options' \in {options, [options EXCEPT !.ditherMode = "none"]}
  /\ worker' = [RunInit EXCEPT !.request = worker.request + 1]
  /\ UNCHANGED <<imageData, client, posted>>

(***************************************************************************)
(* SpecUnit: orderedDither (both copies) and resizeImageData applied to an *)
(* image.                                                                  *)
(***************************************************************************)
UnitOff ==
  /\ uImage = ImageOf(1, 1, 0)
  /\ uScale = 100
  /\ uStep = "off"
  /\ uOut = None

UnitInit ==
  /\ uImage \in UnitImages
  /\ uScale \in UnitScales
  /\ uStep = "input"
  /\ uOut = None

\* output = orderedDither(pixels, width, height)
UnitOrderedDither ==
  /\ uStep = "input"
  /\ uStep' = "dithered"
  /\ uOut' = Some(orderedDither(uImage.data, uImage.width, uImage.height))
  /\ UNCHANGED <<uImage, uScale>>

\* resizeImageData(imageData, scale), the host granting or refusing each of
\* the two contexts.
UnitResize ==
  /\ uStep = "input"
  /\ \E sourceContext \in BOOLEAN, targetContext \in BOOLEAN :
       uOut' = Some(resizeImageData(uImage, uScale, sourceContext, targetContext))
  /\ uStep' = "resized"
  /\ UNCHANGED <<uImage, uScale>>

\* output = orderedDither(pixels, width, height), the worker's copy.
UnitWorkerOrderedDither ==
  /\ uStep = "input"
  /\ uStep' = "workerDithered"
  /\ uOut' = Some(workerOrderedDither(uImage.data, uImage.width, uImage.height))
  /\ UNCHANGED <<uImage, uScale>>

UnitNext ==
  \/ UnitOrderedDither /\ UNCHANGED <<pipeVars, nodeVars, uiVars>>
  \/ UnitWorkerOrderedDither /\ UNCHANGED <<pipeVars, nodeVars, uiVars>>
  \/ UnitResize /\ UNCHANGED <<pipeVars, nodeVars, uiVars>>

(***************************************************************************)
(* Spec: one request, run by applyPaletteDitherClient and by the worker.   *)
(***************************************************************************)
PipelineOff ==
  /\ imageData = ImageOf(1, 1, 0)
  /\ options = [maxColors |-> 8, scale |-> None, ditherMode |-> "undefined",
                colorReduction |-> "undefined",
                colorDistanceFormula |-> "undefined"]
  /\ client = [RunInit EXCEPT !.pc = "off"]
  /\ worker = [RunInit EXCEPT !.pc = "off"]
  /\ posted = <<>>

PipelineInit ==
  /\ imageData \in PipelineImages
  /\ options \in OptionObjects
  /\ client = RunInit
  /\ worker = RunInit
  /\ posted = <<>>

PipelineNext ==
  \/ ClientConfig /\ UNCHANGED <<unitVars, nodeVars, uiVars>>
  \/ ClientResize /\ UNCHANGED <<unitVars, nodeVars, uiVars>>
  \/ ClientPaletteSource /\ UNCHANGED <<unitVars, nodeVars, uiVars>>
  \/ ClientBuildPalette /\ UNCHANGED <<unitVars, nodeVars, uiVars>>
  \/ ClientApplyPalette /\ UNCHANGED <<unitVars, nodeVars, uiVars>>
  \/ ClientOutputCanvas /\ UNCHANGED <<unitVars, nodeVars, uiVars>>
  \/ ClientToBlob /\ UNCHANGED <<unitVars, nodeVars, uiVars>>
  \/ WorkerConfig /\ UNCHANGED <<unitVars, nodeVars, uiVars>>
  \/ WorkerResize /\ UNCHANGED <<unitVars, nodeVars, uiVars>>
  \/ WorkerPaletteSource /\ UNCHANGED <<unitVars, nodeVars, uiVars>>
  \/ WorkerBuildPalette /\ UNCHANGED <<unitVars, nodeVars, uiVars>>
  \/ WorkerApplyPalette /\ UNCHANGED <<unitVars, nodeVars, uiVars>>
  \/ WorkerOutputCanvas /\ UNCHANGED <<unitVars, nodeVars, uiVars>>
  \/ WorkerConvertToBlob /\ UNCHANGED <<unitVars, nodeVars, uiVars>>

(***************************************************************************)
(* applyPaletteDither (dither.ts, 55-104), the Node pipeline.              *)
(* nodeInput: [kind: "path" or "buffer", image: the picture the bytes      *)
(*   encode];                                                              *)
(* nodeOptions: [maxColors, palette, dither, resize], None when omitted;   *)
(* node: pc (validate -> read -> decode -> quantize -> encode -> resolved, *)
(*   or rejected), error, fileReads (calls of fs.readFile), buffer, data   *)
(*   and info of the decoded picture, palette, output (the PNG).           *)
(***************************************************************************)
\* options.maxColors: omitted, -1, 0, 1, 2, 4.
NodeMaxColors == {None, Some(-1), Some(0), Some(1), Some(2), Some(4)}

\* options.palette: omitted, or 0 to 3 colours of 3 or 4 channels, the
\* channels in halves: black, white, and (300, -5, 127.5, 128).
NodePalettes ==
  {None,
   Some(<<>>),
   Some(<< <<0, 0, 0>> >>),
   Some(<< <<0, 0, 0>>, <<510, 510, 510>> >>),
   Some(<< <<600, -10, 255, 256>>, <<0, 0, 0>>, <<510, 510, 510, 510>> >>)}

\* options.resize: omitted, or {width, height, fit: 'fill'}.
NodeResizes ==
  {None, Some([width |-> 1, height |-> 1, fit |-> "fill"]),
   Some([width |-> 2, height |-> 2, fit |-> "fill"])}

NodeOptionObjects ==
  {[maxColors |-> m, palette |-> p, dither |-> d, resize |-> None] :
     m \in NodeMaxColors, p \in NodePalettes, d \in {None, Some(TRUE), Some(FALSE)}}
  \cup
  {[maxColors |-> Some(4), palette |-> p, dither |-> Some(FALSE), resize |-> r] :
     p \in {None, Some(<< <<0, 0, 0>>, <<510, 510, 510>> >>)}, r \in NodeResizes}

NodeInputs ==
  {[kind |-> k, image |-> ImageOf(w, h, 0)] :
     k \in {"path", "buffer"}, w \in 1..MaxW, h \in 1..MaxH}

NodeRunInit ==
  [pc |-> "validate", error |-> "", fileReads |-> 0, buffer |-> None,
   decoded |-> None, paletteArgs |-> None, palette |-> <<>>,
   imageQuantization |-> "",
   outputPixels |-> None, output |-> None]

\* Every entry made opaque: the supplied alpha is not read.
createManualPaletteOpaque(colors) ==
  LET point(color) ==
        <<clamp8(color[1]), clamp8(color[2]), clamp8(color[3]), 255>>
  IN SortColors({point(colors[i]) : i \in 1..Len(colors)})

\* createManualPalette(colors), 35-43: every channel (in halves) through
\* clamp8, a missing alpha 255, then palette.sort().
createManualPalette(colors) ==
  LET point(color) ==
        <<clamp8(color[1]), clamp8(color[2]), clamp8(color[3]),
          IF Len(color) >= 4 THEN clamp8(color[4]) ELSE 255>>
  IN SortColors({point(colors[i]) : i \in 1..Len(colors)})

\* The check written options.palette?.length && ...: an empty palette passes.
PaletteTooShortNonEmpty(opts) ==
  opts.palette # None /\ Len(opts.palette[1]) > 0 /\ Len(opts.palette[1]) < 2

\* Line 56: options.palette && options.palette.length < 2.
PaletteTooShort(opts) == opts.palette # None /\ Len(opts.palette[1]) < 2

\* maxColors checked whether or not a palette is given.
MaxColorsInvalidAlways(opts) ==
  opts.maxColors = None \/ opts.maxColors[1] = 0 \/ opts.maxColors[1] < 2

\* Line 60: !options.palette?.length && (!options.maxColors ||
\* options.maxColors < 2).
MaxColorsInvalid(opts) ==
  /\ (opts.palette = None \/ Len(opts.palette[1]) = 0)
  /\ (opts.maxColors = None \/ opts.maxColors[1] = 0 \/ opts.maxColors[1] < 2)

\* Lines 56-62: the error thrown, "" when none is.
validate(opts) ==
  IF PaletteTooShort(opts)
  THEN "palette must contain at least 2 colors"
  ELSE IF MaxColorsInvalid(opts)
  THEN "maxColors must be at least 2 when palette is not provided"
  ELSE ""

\* The checks made after the input has been read.
NodeValidateAfterRead ==
  /\ node.pc = "validate"
  /\ node' = [node EXCEPT
                !.pc = IF validate(nodeOptions) # "" THEN "rejected" ELSE "decode",
                !.error = validate(nodeOptions),
                !.fileReads = IF nodeInput.kind = "path" THEN @ + 1 ELSE @,
                !.buffer = Some(nodeInput.image)]
  /\ UNCHANGED <<nodeInput, nodeOptions>>

\* Lines 55-62: both checks, before the first await.
NodeValidate ==
  /\ node.pc = "validate"
  /\ node' = [node EXCEPT
                !.pc = IF validate(nodeOptions) # "" THEN "rejected" ELSE "read",
                !.error = validate(nodeOptions)]
  /\ UNCHANGED <<nodeInput, nodeOptions>>

\* Line 64, resolveInput (45-50): a path is read with fs.readFile, which
\* may fail; a Buffer is used as it is.
NodeResolveInput ==
  /\ node.pc = "read"
  /\ IF nodeInput.kind = "path"
     THEN \E readOk \in BOOLEAN :
            node' =
              IF readOk
              THEN [node EXCEPT !.pc = "decode",
                                !.fileReads = @ + 1,
                                !.buffer = Some(nodeInput.image)]
              ELSE [node EXCEPT !.pc = "rejected",
                                !.fileReads = @ + 1,
                                !.error = "ENOENT"]
     ELSE node' = [node EXCEPT !.pc = "decode",
                               !.buffer = Some(nodeInput.image)]
  /\ UNCHANGED <<nodeInput, nodeOptions>>

\* sharp's resize to {width, height, fit: 'fill'}: with withoutEnlargement
\* (the default of line 72) a picture smaller than the target is left as is.
sharpResize(image, resize) ==
  IF resize.width > image.width \/ resize.height > image.height
  THEN image
  ELSE drawImage(image, resize.width, resize.height)

\* Lines 65-76: sharp decodes the buffer to raw RGBA (and resizes it when
\* resize.width or resize.height is given), or fails on bytes it cannot read.
NodeDecode ==
  /\ node.pc = "decode"
  /\ \E decodeOk \in BOOLEAN :
       node' =
         IF decodeOk
         THEN [node EXCEPT
                 !.pc = "quantize",
                 !.decoded =
                   Some(IF nodeOptions.resize # None
                        THEN sharpResize(node.buffer[1], nodeOptions.resize[1])
                        ELSE node.buffer[1])]
         ELSE [node EXCEPT !.pc = "rejected",
                           !.error = "Input buffer contains unsupported image format"]
  /\ UNCHANGED <<nodeInput, nodeOptions>>

\* Lines 77-94: the manual palette when one is given, else buildPaletteSync
\* with options.maxColors; then applyPaletteSync.
NodeQuantize ==
  /\ node.pc = "quantize"
  /\ LET image == node.decoded[1]
         palette ==
           IF nodeOptions.palette # None /\ Len(nodeOptions.palette[1]) > 0
           THEN createManualPalette(nodeOptions.palette[1])
           ELSE buildPaletteSync(image.data, image.width, image.height,
                                 nodeOptions.maxColors[1])
         manual == nodeOptions.palette # None /\ Len(nodeOptions.palette[1]) > 0
         quantization ==
           IF nodeOptions.dither = Some(FALSE) THEN NEAREST_ALGO ELSE DITHER_ALGO
     IN node' =
          [node EXCEPT
             !.pc = "encode",
             !.paletteArgs =
               IF manual THEN None
               ELSE Some([colors |-> nodeOptions.maxColors[1],
                          paletteQuantization |-> "wuquant"]),
             !.palette = palette,
             !.imageQuantization = quantization,
             !.outputPixels =
               Some(applyPaletteSync(image.data, image.width, image.height,
                                     palette, quantization))]
  /\ UNCHANGED <<nodeInput, nodeOptions>>

\* Lines 95-103: sharp encodes the raw pixels as a PNG.
NodeEncode ==
  /\ node.pc = "encode"
  /\ node' =
       [node EXCEPT
          !.pc = "resolved",
          !.output = Some([type |-> "image/png",
                           width |-> node.decoded[1].width,
                           height |-> node.decoded[1].height,
                           data |-> node.outputPixels[1]])]
  /\ UNCHANGED <<nodeInput, nodeOptions>>

NodeOff ==
  /\ nodeInput = [kind |-> "buffer", image |-> ImageOf(1, 1, 0)]
  /\ nodeOptions = [maxColors |-> None, palette |-> None, dither |-> None,
                    resize |-> None]
  /\ node = [NodeRunInit EXCEPT !.pc = "off"]

NodeInit ==
  /\ nodeInput \in NodeInputs
  /\ nodeOptions \in NodeOptionObjects
  /\ node = NodeRunInit

NodeNext ==
  \/ NodeValidate /\ UNCHANGED <<unitVars, pipeVars, uiVars>>
  \/ NodeResolveInput /\ UNCHANGED <<unitVars, pipeVars, uiVars>>
  \/ NodeDecode /\ UNCHANGED <<unitVars, pipeVars, uiVars>>
  \/ NodeQuantize /\ UNCHANGED <<unitVars, pipeVars, uiVars>>
  \/ NodeEncode /\ UNCHANGED <<unitVars, pipeVars, uiVars>>

(***************************************************************************)
(* useDitherProcessor (part_003, 299-451): the hook that decodes the       *)
(* selected file once, caches the decoded ImageData and runs               *)
(* applyPaletteDitherClient on it.                                         *)
(* sourceFile: the hook's argument, 0 for null, else a file 1..MaxFiles;   *)
(* hook: the five states (outputUrl, outputSize, sourceSize, isProcessing, *)
(*   error) and the four refs (outputUrlRef, sourceImageDataRef,           *)
(*   processingLockRef, loadTokenRef);                                     *)
(* hookRuns: the calls of process that are suspended at an await, each     *)
(*   with the sourceFile of its closure, its options, its token and        *)
(*   imageData, at pc "decoding" (in loadImageData) or "pipeline" (in      *)
(*   applyPaletteDitherClient);                                            *)
(* urls: the object URLs created so far (1..created) and those revoked;    *)
(* hookLog: what has happened: a call of process was dropped, how many     *)
(*   decodes filled the cache since the last reset, how the last finished  *)
(*   run ended.                                                            *)
(***************************************************************************)
\* Files the user can select.
MaxFiles == 2

\* Object URLs created by URL.createObjectURL.
MaxUrls == 3

\* Increments of loadTokenRef after the first.
MaxResets == 3

\* The picture a file holds.
FileImage(f) == ImageOf(1 + (f % 3), 1 + (f % 2), f % 2)

\* The options of the calls of process: 4 colours at half size without
\* dithering, 2 colours at full size with error diffusion.
HookOptions ==
  {[maxColors |-> 8, scale |-> Some(50), ditherMode |-> "none",
    colorReduction |-> "adaptive", colorDistanceFormula |-> "undefined"],
   [maxColors |-> 4, scale |-> Some(100), ditherMode |-> "diffusion",
    colorReduction |-> "undefined", colorDistanceFormula |-> "undefined"]}

\* applyPaletteDitherClient (ditherClient.ts, 144-190) as one call: the
\* result it resolves with, or the error it rejects with, for what the host
\* answers to the three getContext calls and to toBlob.
applyPaletteDitherClient(image, opts, sourceContext, targetContext, outputContext, encoded) ==
  LET scale == clientScale(opts)
      maxColors == clientMaxColors(opts)
      ditherMode == clientDitherMode(opts)
      resized == resizeImageData(image, scale, sourceContext, targetContext)
  IN IF ~resized.ok THEN [ok |-> FALSE, error |-> resized.error]
     ELSE IF ~outputContext
     THEN [ok |-> FALSE, error |-> "Canvas context unavailable"]
     ELSE IF ~encoded THEN [ok |-> FALSE, error |-> "Failed to encode image"]
     ELSE LET src == paletteSource(ditherMode, resized.imageData,
                                   resized.width, resized.height)
              palette == buildPaletteSync(src.data, resized.width,
                                          resized.height, maxColors)
              output == applyPaletteSync(src.data, resized.width,
                                         resized.height, palette,
                                         imageQuantization(ditherMode))
          IN [ok |-> TRUE,
              result |-> [blob |-> [type |-> "image/png",
                                    width |-> resized.width,
                                    height |-> resized.height,
                                    data |-> output],
                          width |-> resized.width,
                          height |-> resized.height]]

\* What the host answers to the three getContext calls and to toBlob: all
\* granted, or the first refusal.
HostAnswers ==
  {<<TRUE, TRUE, TRUE, TRUE>>, <<FALSE, TRUE, TRUE, TRUE>>,
   <<TRUE, FALSE, TRUE, TRUE>>, <<TRUE, TRUE, FALSE, TRUE>>,
   <<TRUE, TRUE, TRUE, FALSE>>}

\* The sequence without its i-th element.
Remove(seq, i) == SubSeq(seq, 1, i - 1) \o SubSeq(seq, i + 1, Len(seq))

\* revokeUrl(url), 329-333: URL.revokeObjectURL unless url is null.
revokeUrl(revoked, url) ==
  IF url # None THEN revoked \cup {url[1].id} ELSE revoked

\* The hook after its first render and effects: the states as constructed
\* (300-304) and the mount effect's reset() (362-364).
HookInit ==
  /\ sourceFile = 0
  /\ hook = [outputUrl |-> None, outputSize |-> None, sourceSize |-> None,
             isProcessing |-> FALSE, error |-> None, outputUrlRef |-> None,
             sourceImageDataRef |-> None, processingLockRef |-> FALSE,
             loadTokenRef |-> 1]
  /\ hookRuns = <<>>
  /\ urls = [created |-> 0, revoked |-> {}]
  /\ hookLog = [dropped |-> FALSE, decoded |-> 0, last |-> "none"]

HookOff ==
  /\ sourceFile = 0
  /\ hook = [outputUrl |-> None, outputSize |-> None, sourceSize |-> None,
             isProcessing |-> FALSE, error |-> None, outputUrlRef |-> None,
             sourceImageDataRef |-> None, processingLockRef |-> FALSE,
             loadTokenRef |-> 0]
  /\ hookRuns = <<>>
  /\ urls = [created |-> 0, revoked |-> {}]
  /\ hookLog = [dropped |-> FALSE, decoded |-> 0, last |-> "off"]

\* reset(), 338-347, with the cleanup of the outputUrl effect (352-357)
\* that the change of outputUrl brings.
reset(h) ==
  [h EXCEPT !.outputUrlRef = None, !.outputUrl = None, !.outputSize = None,
            !.sourceSize = None, !.error = None,
            !.sourceImageDataRef = None, !.loadTokenRef = @ + 1]

resetRevoked(h) == revokeUrl(revokeUrl(urls.revoked, h.outputUrlRef), h.outputUrl)

\* The user selects another file (or none): the hook is rendered with the
\* new sourceFile and the effect of 362-364 calls reset().
HookSourceFileChange ==
  /\ hookLog.last # "off"
  /\ hook.loadTokenRef <= MaxResets
  /\ \E f \in 0..MaxFiles :
       /\ f # sourceFile
       /\ sourceFile' = f
  /\ hook' = reset(hook)
  /\ urls' = [urls EXCEPT !.revoked = resetRevoked(hook)]
  /\ hookLog' = [hookLog EXCEPT !.decoded = 0]
  /\ UNCHANGED hookRuns

\* The caller calls the reset the hook returns.
HookReset ==
  /\ hookLog.last # "off"
  /\ hook.loadTokenRef <= MaxResets
  /\ hook' = reset(hook)
  /\ urls' = [urls EXCEPT !.revoked = resetRevoked(hook)]
  /\ hookLog' = [hookLog EXCEPT !.decoded = 0]
  /\ UNCHANGED <<sourceFile, hookRuns>>

\* The guard of line 399 without the lock.
processGuardNoLock == sourceFile # 0

\* Line 399: process goes on only with a file and with the lock free.
processGuard == sourceFile # 0 /\ ~hook.processingLockRef

\* The cache is not consulted: every run decodes.
cachedImageDataNever == None

\* Line 408: let imageData = sourceImageDataRef.current.
cachedImageData == hook.sourceImageDataRef

\* process(options), 398-412 or 398-423: a call without a file returns at
\* once; a call that finds the lock taken is dropped; otherwise the lock is
\* taken and the run goes up to its first await, of loadImageData when
\* nothing is cached, else of applyPaletteDitherClient.
HookProcess ==
  /\ hookLog.last # "off"
  /\ sourceFile # 0
  /\ \E opts \in HookOptions :
       IF ~processGuard
       THEN /\ hookLog' = [hookLog EXCEPT !.dropped = TRUE]
            /\ UNCHANGED <<sourceFile, hook, hookRuns, urls>>
       ELSE /\ urls.created + Len(hookRuns) < MaxUrls
            /\ hook' = [hook EXCEPT !.processingLockRef = TRUE,
                                    !.isProcessing = TRUE,
                                    !.error = None]
            /\ hookRuns' =
                 Append(hookRuns,
                        IF cachedImageData = None
                        THEN [pc |-> "decoding", file |-> sourceFile,
                              options |-> opts, token |-> hook.loadTokenRef,
                              imageData |-> None]
                        ELSE [pc |-> "pipeline", file |-> sourceFile,
                              options |-> opts, token |-> hook.loadTokenRef,
                              imageData |-> cachedImageData])
            /\ hookLog' = [hookLog EXCEPT !.dropped = FALSE]
            /\ UNCHANGED <<sourceFile, urls>>

\* The failure after which the output is cleared as well.
processFailedClearing(h, message) ==
  [h EXCEPT !.error = Some(message), !.processingLockRef = FALSE,
            !.isProcessing = FALSE, !.outputUrl = None, !.outputSize = None]

\* The failure that leaves the lock taken.
processFailedHoldingLock(h, message) ==
  [h EXCEPT !.error = Some(message), !.isProcessing = FALSE]

\* The catch and finally of 439-446: the message is recorded, the lock is
\* released.
processFailed(h, message) ==
  [h EXCEPT !.error = Some(message), !.processingLockRef = FALSE,
            !.isProcessing = FALSE]

\* loadImageData settles (369-392) and process goes on (412-423): the
\* decode may fail, the context may be refused; a result for a token that is
\* no longer current is dropped (process returns); otherwise the decoded
\* picture is cached, its size published, and applyPaletteDitherClient called.
HookLoaded ==
  \E i \in 1..Len(hookRuns) :
    /\ hookRuns[i].pc = "decoding"
    /\ \E bitmap \in BOOLEAN, context \in BOOLEAN :
         LET run == hookRuns[i]
             image == FileImage(run.file)
         IN IF ~bitmap \/ ~context
            THEN /\ hook' = processFailed(hook,
                              IF ~bitmap
                              THEN "The source image could not be decoded."
                              ELSE "Canvas context unavailable")
                 /\ hookRuns' = Remove(hookRuns, i)
                 /\ hookLog' = [hookLog EXCEPT !.last = "failed"]
            ELSE IF hook.loadTokenRef # run.token
            THEN /\ hook' = [hook EXCEPT !.processingLockRef = FALSE,
                                         !.isProcessing = FALSE]
                 /\ hookRuns' = Remove(hookRuns, i)
                 /\ hookLog' = [hookLog EXCEPT !.last = "stale"]
            ELSE /\ hook' = [hook EXCEPT
                               !.sourceImageDataRef = Some(image),
                               !.sourceSize = Some([width |-> image.width,
                                                    height |-> image.height])]
                 /\ hookRuns' = [hookRuns EXCEPT ![i].pc = "pipeline",
                                                 ![i].imageData = Some(image)]
                 /\ hookLog' = [hookLog EXCEPT !.decoded = @ + 1]
    /\ UNCHANGED <<sourceFile, urls>>

\* applyPaletteDitherClient settles and process finishes (425-446): a
\* result is published under a new object URL, the URL it replaces is
\* revoked (by line 432 and by the cleanup of the outputUrl effect); an
\* error is recorded; the lock is released.
HookSettled ==
  \E i \in 1..Len(hookRuns) :
    /\ hookRuns[i].pc = "pipeline"
    /\ \E host \in HostAnswers :
         LET run == hookRuns[i]
             r == applyPaletteDitherClient(run.imageData[1], run.options,
                                           host[1], host[2], host[3], host[4])
             nextUrl == [id |-> urls.created + 1, blob |-> r.result.blob,
                         file |-> run.file]
         IN IF r.ok
            THEN /\ hook' = [hook EXCEPT
                               !.outputUrlRef = Some(nextUrl),
                               !.outputUrl = Some(nextUrl),
                               !.outputSize = Some([width |-> r.result.width,
                                                    height |-> r.result.height]),
                               !.processingLockRef = FALSE,
                               !.isProcessing = FALSE]
                 /\ urls' = [created |-> urls.created + 1,
                             revoked |-> revokeUrl(revokeUrl(urls.revoked,
                                                             hook.outputUrlRef),
                                                   hook.outputUrl)]
                 /\ hookLog' = [hookLog EXCEPT !.last = "done"]
            ELSE /\ hook' = processFailed(hook, r.error)
                 /\ urls' = urls
                 /\ hookLog' = [hookLog EXCEPT !.last = "failed"]
    /\ hookRuns' = Remove(hookRuns, i)
    /\ UNCHANGED sourceFile

HookNext ==
  \/ HookSourceFileChange /\ UNCHANGED <<unitVars, pipeVars, nodeVars, appVars>>
  \/ HookReset /\ UNCHANGED <<unitVars, pipeVars, nodeVars, appVars>>
  \/ HookProcess /\ UNCHANGED <<unitVars, pipeVars, nodeVars, appVars>>
  \/ HookLoaded /\ UNCHANGED <<unitVars, pipeVars, nodeVars, appVars>>
  \/ HookSettled /\ UNCHANGED <<unitVars, pipeVars, nodeVars, appVars>>

(***************************************************************************)
(* DitherizerApp (DitherizerApp.tsx): the page's own processor.            *)
(* app: the states (sourceFile, sourceUrl, outputUrl, outputSize,          *)
(*   sourceSize, maxColors, scale, isProcessing, error) and the refs       *)
(*   (outputUrlRef, processingLockRef, lastProcessedRef, maxColorsRef,     *)
(*   scaleRef); colours are counts, scales hundredths;                     *)
(* appRuns: the calls of processImage suspended at an await, at pc         *)
(*   "decoding" (loadImageData) or "pipeline" (applyPaletteDitherClient);  *)
(* appLog: whether the last request was dropped at the lock, and how the   *)
(*   last finished run ended.                                              *)
(* A handler is taken together with the render and the effects it causes.  *)
(***************************************************************************)
MAX_COLORS == 256

MIN_COLORS == 2

DEFAULT_COLORS == 256

\* 0.25, in hundredths.
MIN_SCALE == 25

\* 4, in hundredths.
MAX_SCALE == 400

\* The files selected on the page (0: the selection is cleared).
AppFiles == 0..Min(MaxFiles, 2)

\* Values the colour slider and input hand to the handlers.
AppColorInputs == {1}

\* Values the scale slider and input hand to the handlers: 1, 9.
AppScaleInputs == {100, 900}

\* The options object of line 182: {maxColors: colors, scale: nextScale,
\* dither: true}; applyPaletteDitherClient reads no `dither`.
AppOptions(colors, nextScale) ==
  [maxColors |-> 2 * colors, scale |-> Some(nextScale),
   ditherMode |-> "undefined", colorReduction |-> "undefined",
   colorDistanceFormula |-> "undefined"]

AppInit ==
  /\ app = [sourceFile |-> 0, sourceUrl |-> None, outputUrl |-> None,
            outputUrlRef |-> None, processingLockRef |-> FALSE,
            lastProcessedRef |-> None, outputSize |-> None,
            sourceSize |-> None, maxColors |-> DEFAULT_COLORS, scale |-> 100,
            isProcessing |-> FALSE, error |-> None,
            maxColorsRef |-> DEFAULT_COLORS, scaleRef |-> 100]
  /\ appRuns = <<>>
  /\ appLog = [dropped |-> FALSE, last |-> "none"]

AppOff ==
  /\ app = [sourceFile |-> 0, sourceUrl |-> None, outputUrl |-> None,
            outputUrlRef |-> None, processingLockRef |-> FALSE,
            lastProcessedRef |-> None, outputSize |-> None,
            sourceSize |-> None, maxColors |-> DEFAULT_COLORS, scale |-> 100,
            isProcessing |-> FALSE, error |-> None,
            maxColorsRef |-> DEFAULT_COLORS, scaleRef |-> 100]
  /\ appRuns = <<>>
  /\ appLog = [dropped |-> FALSE, last |-> "off"]

\* processImage(file, colors, nextScale), 170-178: dropped when the lock is
\* held; otherwise the lock is taken and the run waits for loadImageData.
processImage(a, runs, file, colors, nextScale) ==
  IF a.processingLockRef
  THEN [app |-> a, runs |-> runs, dropped |-> TRUE]
  ELSE [app |-> [a EXCEPT !.processingLockRef = TRUE, !.isProcessing = TRUE,
                          !.error = None],
        runs |-> Append(runs, [pc |-> "decoding", file |-> file,
                               colors |-> colors, scale |-> nextScale,
                               imageData |-> None]),
        dropped |-> FALSE]

\* triggerProcessing(nextColors, nextScale), 205-218.
triggerProcessing(a, runs, nextColors, nextScale) ==
  IF a.sourceFile = 0
  THEN [app |-> a, runs |-> runs, dropped |-> FALSE]
  ELSE IF a.lastProcessedRef # None
          /\ a.lastProcessedRef[1].colors = nextColors
          /\ a.lastProcessedRef[1].scale = nextScale
  THEN [app |-> a, runs |-> runs, dropped |-> FALSE]
  ELSE processImage([a EXCEPT !.lastProcessedRef =
                                Some([colors |-> nextColors, scale |-> nextScale])],
                    runs, a.sourceFile, nextColors, nextScale)

\* The cleanup of the effect of 99-105, run when sourceUrl or outputUrl
\* changes: both URLs of the previous render are revoked.
urlEffectCleanup(revoked, a, next) ==
  IF next.sourceUrl # a.sourceUrl \/ next.outputUrl # a.outputUrl
  THEN revokeUrl(revokeUrl(revoked, a.sourceUrl), a.outputUrl)
  ELSE revoked

\* derivedOutputSize, 72-80: the size the scale on the page would give.
derivedOutputSize(a) ==
  IF a.sourceSize = None THEN None
  ELSE Some([width |-> Max(1, RoundScaled(a.sourceSize[1].width, a.scale)),
             height |-> Max(1, RoundScaled(a.sourceSize[1].height, a.scale))])

\* displayOutputSize, line 85: outputSize ?? derivedOutputSize.
displayOutputSize(a) ==
  IF a.outputSize # None THEN a.outputSize ELSE derivedOutputSize(a)

\* handleFileSelect(file), 119-135 (from the input, 140-143, or a drop,
\* 296-305), with resetOutput (110-114), the effect of 99-105 (which sets
\* outputUrlRef) and the effect of 220-225 (which calls triggerProcessing
\* for a new file).
AppFileSelect ==
  /\ appLog.last # "off"
  /\ \E f \in AppFiles :
       /\ f # app.sourceFile
       /\ f # 0 => urls.created + Len(appRuns) < MaxUrls
       /\ LET nextUrl == [id |-> urls.created + 1, blob |-> None, file |-> f]
              selected ==
                IF f = 0
                THEN [app EXCEPT !.error = None, !.outputUrl = None,
                                 !.outputSize = None, !.sourceFile = 0,
                                 !.sourceUrl = None, !.sourceSize = None,
                                 !.outputUrlRef = None]
                ELSE [app EXCEPT !.error = None, !.outputUrl = None,
                                 !.outputSize = None, !.sourceFile = f,
                                 !.sourceUrl = Some(nextUrl),
                                 !.outputUrlRef = None]
              triggered == triggerProcessing(selected, appRuns,
                                             selected.maxColorsRef,
                                             selected.scaleRef)
          IN /\ app' = triggered.app
             /\ appRuns' = triggered.runs
             /\ appLog' = [appLog EXCEPT !.dropped = triggered.dropped]
             /\ urls' = [created |-> IF f = 0 THEN urls.created
                                     ELSE urls.created + 1,
                         revoked |-> urlEffectCleanup(
                                       revokeUrl(revokeUrl(urls.revoked,
                                                           app.outputUrl),
                                                 app.sourceUrl),
                                       app, selected)]

\* handleColorsChange(value), 230-234: the slider or the input moves.
AppColorsChange ==
  /\ appLog.last # "off"
  /\ app.sourceFile # 0
  /\ \E value \in AppColorInputs :
       LET clamped == clamp(value, MIN_COLORS, MAX_COLORS)
       IN /\ clamped # app.maxColorsRef
          /\ app' = [app EXCEPT !.maxColorsRef = clamped, !.maxColors = clamped]
  /\ UNCHANGED <<appRuns, appLog, urls>>

\* handleScaleChange(value), 239-243.
AppScaleChange ==
  /\ appLog.last # "off"
  /\ app.sourceFile # 0
  /\ \E value \in AppScaleInputs :
       LET clamped == clamp(value, MIN_SCALE, MAX_SCALE)
       IN /\ clamped # app.scaleRef
          /\ app' = [app EXCEPT !.scaleRef = clamped, !.scale = clamped]
  /\ UNCHANGED <<appRuns, appLog, urls>>

\* handleColorsCommit(value), 248-253: the slider is released or the input
\* blurred.
AppColorsCommit ==
  /\ appLog.last # "off"
  /\ app.sourceFile # 0
  /\ \E value \in AppColorInputs :
       LET clamped == clamp(value, MIN_COLORS, MAX_COLORS)
           triggered ==
             triggerProcessing([app EXCEPT !.maxColorsRef = clamped,
                                           !.maxColors = clamped],
                               appRuns, clamped, app.scaleRef)
       IN /\ Len(triggered.runs) > Len(appRuns)
            => urls.created + Len(appRuns) < MaxUrls
          /\ app' = triggered.app
          /\ appRuns' = triggered.runs
          /\ appLog' = [appLog EXCEPT !.dropped = triggered.dropped]
  /\ UNCHANGED urls

\* handleScaleCommit(value), 258-263.
AppScaleCommit ==
  /\ appLog.last # "off"
  /\ app.sourceFile # 0
  /\ \E value \in AppScaleInputs :
       LET clamped == clamp(value, MIN_SCALE, MAX_SCALE)
           triggered ==
             triggerProcessing([app EXCEPT !.scaleRef = clamped,
                                           !.scale = clamped],
                               appRuns, app.maxColorsRef, clamped)
       IN /\ Len(triggered.runs) > Len(appRuns)
            => urls.created + Len(appRuns) < MaxUrls
          /\ app' = triggered.app
          /\ appRuns' = triggered.runs
          /\ appLog' = [appLog EXCEPT !.dropped = triggered.dropped]
  /\ UNCHANGED urls

\* The catch and finally of 194-199.
processImageFailed(a, message) ==
  [a EXCEPT !.error = Some(message), !.processingLockRef = FALSE,
            !.isProcessing = FALSE]

\* loadImageData settles (149-164) and processImage goes on (179-186): the
\* decode may fail, the context may be refused; otherwise the source size
\* is published and applyPaletteDitherClient called.
AppLoaded ==
  /\ \E i \in 1..Len(appRuns) :
       /\ appRuns[i].pc = "decoding"
       /\ \E bitmap \in BOOLEAN, context \in BOOLEAN :
            LET image == FileImage(appRuns[i].file)
            IN IF ~bitmap \/ ~context
               THEN /\ app' = processImageFailed(app,
                                IF ~bitmap
                                THEN "The source image could not be decoded."
                                ELSE "Canvas context unavailable")
                    /\ appRuns' = Remove(appRuns, i)
                    /\ appLog' = [appLog EXCEPT !.last = "failed"]
               ELSE /\ app' = [app EXCEPT
                                 !.sourceSize = Some([width |-> image.width,
                                                      height |-> image.height])]
                    /\ appRuns' = [appRuns EXCEPT ![i].pc = "pipeline",
                                                  ![i].imageData = Some(image)]
                    /\ appLog' = appLog
  /\ UNCHANGED urls

\* applyPaletteDitherClient settles and processImage finishes (188-199): a
\* result is published under a new object URL after the URL in outputUrlRef
\* is revoked, and the change of outputUrl runs the cleanup of the effect
\* of 99-105; an error is recorded; the lock is released.
AppSettled ==
  \E i \in 1..Len(appRuns) :
    /\ appRuns[i].pc = "pipeline"
    /\ \E host \in HostAnswers :
         LET run == appRuns[i]
             r == applyPaletteDitherClient(run.imageData[1],
                                           AppOptions(run.colors, run.scale),
                                           host[1], host[2], host[3], host[4])
             nextUrl == [id |-> urls.created + 1, blob |-> Some(r.result.blob),
                         file |-> run.file]
             published ==
               [app EXCEPT
                  !.outputUrlRef = Some(nextUrl),
                  !.outputUrl = Some(nextUrl),
                  !.outputSize = Some([width |-> r.result.width,
                                       height |-> r.result.height]),
                  !.processingLockRef = FALSE,
                  !.isProcessing = FALSE]
         IN IF r.ok
            THEN /\ app' = published
                 /\ urls' = [created |-> urls.created + 1,
                             revoked |-> urlEffectCleanup(
                                           revokeUrl(urls.revoked,
                                                     app.outputUrlRef),
                                           app, published)]
                 /\ appLog' = [appLog EXCEPT !.last = "done"]
            ELSE /\ app' = processImageFailed(app, r.error)
                 /\ urls' = urls
                 /\ appLog' = [appLog EXCEPT !.last = "failed"]
    /\ appRuns' = Remove(appRuns, i)

AppNext ==
  \/ AppFileSelect /\ UNCHANGED <<unitVars, pipeVars, nodeVars, hookVars>>
  \/ AppColorsChange /\ UNCHANGED <<unitVars, pipeVars, nodeVars, hookVars>>
  \/ AppScaleChange /\ UNCHANGED <<unitVars, pipeVars, nodeVars, hookVars>>
  \/ AppColorsCommit /\ UNCHANGED <<unitVars, pipeVars, nodeVars, hookVars>>
  \/ AppScaleCommit /\ UNCHANGED <<unitVars, pipeVars, nodeVars, hookVars>>
  \/ AppLoaded /\ UNCHANGED <<unitVars, pipeVars, nodeVars, hookVars>>
  \/ AppSettled /\ UNCHANGED <<unitVars, pipeVars, nodeVars, hookVars>>

(***************************************************************************)
(* The specifications.                                                     *)
(***************************************************************************)
Init == UnitOff /\ PipelineInit /\ NodeOff /\ HookOff /\ AppOff

Next == PipelineNext

\* One request through the foreground pipeline and through the worker.
Spec == Init /\ [][Next]_vars

InitUnit == UnitInit /\ PipelineOff /\ NodeOff /\ HookOff /\ AppOff

\* A helper applied to an image.
SpecUnit == InitUnit /\ [][UnitNext]_vars

InitNode == UnitOff /\ PipelineOff /\ NodeInit /\ HookOff /\ AppOff

\* One call of applyPaletteDither.
SpecNode == InitNode /\ [][NodeNext]_vars

(***************************************************************************)
InitAll ==
  \/ UnitOff /\ PipelineInit /\ NodeOff /\ HookOff /\ AppOff
  \/ UnitOff /\ PipelineOff /\ NodeInit /\ HookOff /\ AppOff

NextAll == PipelineNext \/ NodeNext

\* One request to the browser pipeline (both copies), or one call of
\* applyPaletteDither.
SpecAll == InitAll /\ [][NextAll]_vars

InitHook == UnitOff /\ PipelineOff /\ NodeOff /\ HookInit /\ AppOff

\* The hook under file selections, resets, calls of process and completions.
SpecHook == InitHook /\ [][HookNext]_vars

InitUi ==
  \/ UnitOff /\ PipelineOff /\ NodeOff /\ HookInit /\ AppOff
  \/ UnitOff /\ PipelineOff /\ NodeOff /\ HookOff /\ AppInit
       /\ urls = [created |-> 0, revoked |-> {}]

NextUi == HookNext \/ AppNext

\* A processor under the user's actions and the host's completions: the
\* hook useDitherProcessor, or the page DitherizerApp.
SpecUi == InitUi /\ [][NextUi]_vars

InitWorker ==
  /\ UnitOff /\ NodeOff /\ HookOff /\ AppOff
  /\ imageData \in PipelineImages
  /\ options \in OptionObjects
  /\ client = [RunInit EXCEPT !.pc = "off"]
  /\ worker = RunInit
  /\ posted = <<>>

NextWorker ==
  \/ WorkerConfig /\ UNCHANGED <<unitVars, nodeVars, uiVars>>
  \/ WorkerResize /\ UNCHANGED <<unitVars, nodeVars, uiVars>>
  \/ WorkerPaletteSource /\ UNCHANGED <<unitVars, nodeVars, uiVars>>
  \/ WorkerBuildPalette /\ UNCHANGED <<unitVars, nodeVars, uiVars>>
  \/ WorkerApplyPalette /\ UNCHANGED <<unitVars, nodeVars, uiVars>>
  \/ WorkerOutputCanvas /\ UNCHANGED <<unitVars, nodeVars, uiVars>>
  \/ WorkerConvertToBlob /\ UNCHANGED <<unitVars, nodeVars, uiVars>>
  \/ WorkerMessage /\ UNCHANGED <<unitVars, nodeVars, uiVars>>

\* The worker alone, served one message after the other.
SpecWorker == InitWorker /\ [][NextWorker]_vars

\* The awaited host calls settle: a run suspended at an await is resumed.
\* createImageBitmap, getContext and toBlob answer (the decode, 371 and
\* 149; the pipeline, 425 and 182), so each of the four resumptions is
\* taken when it stays possible.
FairUi ==
  /\ WF_vars(HookLoaded /\ UNCHANGED <<unitVars, pipeVars, nodeVars, appVars>>)
  /\ WF_vars(HookSettled /\ UNCHANGED <<unitVars, pipeVars, nodeVars, appVars>>)
  /\ WF_vars(AppLoaded /\ UNCHANGED <<unitVars, pipeVars, nodeVars, hookVars>>)
  /\ WF_vars(AppSettled /\ UNCHANGED <<unitVars, pipeVars, nodeVars, hookVars>>)

\* The hook or the page, the host answering every awaited call.
SpecUiLive == InitUi /\ [][NextUi]_vars /\ FairUi

(***************************************************************************)
(* The properties checked.                                                 *)
(***************************************************************************)
\* t is Math.round(dim * scale) floored at 1, said without the code's
\* arithmetic: dim * scale lies in [t - 0.5, t + 0.5), or below 0.5 with t = 1.
IsRoundedDim(t, dim, scale) ==
  /\ t >= 1
  /\ IF 2 * dim * scale < 100
     THEN t = 1
     ELSE 100 * (2 * t - 1) <= 2 * dim * scale /\ 2 * dim * scale < 100 * (2 * t + 1)

\* C1: for every source width and height >= 1 and every scale,
\* resizeImageData returns width = max(1, round(w * s)) and
\* height = max(1, round(h * s)), rounded and not truncated, so neither is
\* ever 0; the resized buffer has these dimensions.
C1_ResizeRoundsFloorOne ==
  (uStep = "resized" /\ uOut[1].ok) =>
    /\ IsRoundedDim(uOut[1].width, uImage.width, uScale)
    /\ IsRoundedDim(uOut[1].height, uImage.height, uScale)
    /\ uOut[1].imageData.width = uOut[1].width
    /\ uOut[1].imageData.height = uOut[1].height

\* C1's case: a width that rounds to 0 and is floored to 1, beside a height
\* that rounds up to more than its truncation.
C1_Witness ==
  /\ uStep = "resized"
  /\ uOut[1].ok
  /\ 2 * uImage.width * uScale < 100
  /\ uOut[1].width = 1
  /\ uOut[1].height >= 2
  /\ uOut[1].height > (uImage.height * uScale) \div 100

\* The scale a request asks for, clamped as the claim says: 1 when omitted,
\* else within [0.1, 1].
ClaimedScale ==
  IF options.scale = None THEN 100
  ELSE IF options.scale[1] > 100 THEN 100
  ELSE IF options.scale[1] < 10 THEN 10
  ELSE options.scale[1]

HostErrors == {"Canvas context unavailable", "Failed to encode image"}

\* C2: applyPaletteDitherClient never rejects an out-of-range scale: a scale
\* above 1 is clamped to 1, one below 0.1 to 0.1, an omitted one is 1, and
\* the returned width and height are those of the clamped scale; the only
\* rejections are the host's.
C2_ScaleClampedNotRejected ==
  /\ client.pc # "config" => client.scale = ClaimedScale
  /\ client.pc = "rejected" => client.error \in HostErrors
  /\ client.pc = "resolved" =>
       /\ IsRoundedDim(client.result[1].width, imageData.width, ClaimedScale)
       /\ IsRoundedDim(client.result[1].height, imageData.height, ClaimedScale)
       /\ (options.scale # None /\ options.scale[1] > 100) =>
            /\ client.result[1].width = imageData.width
            /\ client.result[1].height = imageData.height

\* C2's case: a requested scale of 25 resolved at the source's own size.
C2_Witness ==
  /\ options.scale = Some(2500)
  /\ client.pc = "resolved"
  /\ imageData.width >= 2
  /\ client.result[1].width = imageData.width
  /\ client.result[1].height = imageData.height

\* The colour count the claim says is handed on: round(maxColors) clamped
\* into [2, 256], said without the code's arithmetic: 2 below 1.5, 256 from
\* 255.5 on, else the integer c with maxColors in [c - 0.5, c + 0.5).
IsClaimedColors(colors) ==
  IF options.maxColors < 3 THEN colors = 2
  ELSE IF options.maxColors >= 511 THEN colors = 256
  ELSE 2 * colors - 1 <= options.maxColors /\ options.maxColors < 2 * colors + 1

\* C3: in applyPaletteDitherClient and in the worker, the colour count
\* handed to the palette builder is round(options.maxColors) clamped into
\* [2, 256], so no out-of-range count reaches palette construction or
\* mapping (the palette mapped to has at most that many entries).
C3_ColorsInRange ==
  /\ client.paletteArgs # None =>
       /\ client.paletteArgs[1].colors \in 2..256
       /\ IsClaimedColors(client.paletteArgs[1].colors)
       /\ Len(client.palette) <= client.paletteArgs[1].colors
  /\ worker.paletteArgs # None =>
       /\ worker.paletteArgs[1].colors \in 2..256
       /\ IsClaimedColors(worker.paletteArgs[1].colors)
       /\ Len(worker.palette) <= worker.paletteArgs[1].colors

\* C3's case: 999 colours asked for, 256 handed to both palette builders.
C3_Witness ==
  /\ options.maxColors = 1998
  /\ client.paletteArgs = Some([colors |-> 256, paletteQuantization |-> "neuquant",
                                colorDistanceFormula |-> DEFAULT_DISTANCE])
  /\ worker.paletteArgs # None
  /\ worker.paletteArgs[1].colors = 256

ConfigErrors ==
  {"palette must contain at least 2 colors",
   "maxColors must be at least 2 when palette is not provided"}

\* C4: applyPaletteDither fails with 'palette must contain at least 2
\* colors' whenever a manual palette of 0 or 1 entries is supplied, whatever
\* maxColors is.
C4_ShortPaletteRejected ==
  (nodeOptions.palette # None /\ Len(nodeOptions.palette[1]) < 2
     /\ node.pc # "validate") =>
    /\ node.pc = "rejected"
    /\ node.error = "palette must contain at least 2 colors"

\* C4's case: an empty palette beside a valid maxColors, rejected.
C4_Witness ==
  /\ nodeOptions.palette = Some(<<>>)
  /\ nodeOptions.maxColors = Some(4)
  /\ node.pc = "rejected"
  /\ node.error = "palette must contain at least 2 colors"

\* C5: applyPaletteDither fails with 'maxColors must be at least 2 when
\* palette is not provided' whenever no manual palette is given and maxColors
\* is missing or less than 2; with a manual palette of at least 2 entries
\* maxColors is not validated: no configuration error is raised.
C5_MaxColorsValidatedWithoutPalette ==
  /\ (nodeOptions.palette = None /\ node.pc # "validate"
        /\ (nodeOptions.maxColors = None \/ nodeOptions.maxColors[1] < 2)) =>
       /\ node.pc = "rejected"
       /\ node.error = "maxColors must be at least 2 when palette is not provided"
  /\ (nodeOptions.palette # None /\ Len(nodeOptions.palette[1]) >= 2) =>
       node.error \notin ConfigErrors

\* C5's case: no palette and maxColors = 1, rejected.
C5_Witness ==
  /\ nodeOptions.palette = None
  /\ nodeOptions.maxColors = Some(1)
  /\ node.pc = "rejected"
  /\ node.error = "maxColors must be at least 2 when palette is not provided"

\* C6: a configuration error of applyPaletteDither is raised before the
\* input is read, decoded, quantised or encoded: the rejected call has read
\* no file and holds no buffer, no decoded picture and no output.
C6_RejectedBeforeAnyWork ==
  node.error \in ConfigErrors =>
    /\ node.pc = "rejected"
    /\ node.fileReads = 0
    /\ node.buffer = None
    /\ node.decoded = None
    /\ node.outputPixels = None
    /\ node.output = None

\* C6's case: a call on a file path rejected for its configuration.
C6_Witness ==
  /\ nodeInput.kind = "path"
  /\ node.pc = "rejected"
  /\ node.error \in ConfigErrors
  /\ node.fileReads = 0

\* A posted message that carries a blob.
PostedResult == \E i \in 1..Len(posted) : posted[i].blob # None

\* C7 as claimed: called with maxColors < 2 the browser pipeline
\* (applyPaletteDitherClient and the worker) fails with a configuration
\* error and produces no output.
C7_Original ==
  options.maxColors < 4 =>
    /\ client.pc # "resolved"
    /\ client.result = None
    /\ ~PostedResult

\* C7 amended: called with maxColors < 2 the browser pipeline raises no
\* configuration error: both copies hand 2 colours to the palette builder,
\* map to a palette of at most 2 entries, fail only when the host refuses a
\* canvas context or the encoding, and otherwise produce the output.
C7_LowMaxColorsClampedToTwo ==
  options.maxColors < 4 =>
    /\ client.paletteArgs # None => client.paletteArgs[1].colors = 2
    /\ worker.paletteArgs # None => worker.paletteArgs[1].colors = 2
    /\ client.pc = "rejected" => client.error \in HostErrors
    /\ worker.pc = "failed" =>
         worker.error \in {"Canvas context unavailable", "EncodingError"}
    /\ client.pc = "resolved" =>
         /\ client.result # None
         /\ Len(client.palette) <= 2
    /\ worker.pc = "posted" =>
         /\ PostedResult
         /\ Len(worker.palette) <= 2

\* C7's case: maxColors = 1, and both copies have produced their output.
C7_Witness ==
  /\ options.maxColors = 2
  /\ client.pc = "resolved"
  /\ client.result # None
  /\ worker.pc = "posted"
  /\ PostedResult

\* Whether stage `name` has run.
Ran(run, name) == \E i \in 1..Len(run.stages) : run.stages[i] = name

\* C8 for one run: the pre-bias has run iff the mode is 'ordered' (or
\* omitted), diffusion maps iff the mode is 'diffusion', 'none' runs neither,
\* and the two never run together.
StagesFollowMode(run) ==
  LET ordered == options.ditherMode \in {"undefined", "ordered"}
      diffusion == options.ditherMode = "diffusion"
  IN /\ run.paletteSource # None =>
          /\ Ran(run, "orderedDither") <=> ordered
          /\ ordered => run.paletteSource[1] =
                          orderedDither(run.resized[1].data, run.width, run.height)
          /\ ~ordered => run.paletteSource[1] = run.resized[1].data
     /\ run.quantArgs # None =>
          /\ Ran(run, DITHER_ALGO) <=> diffusion
          /\ Ran(run, NEAREST_ALGO) <=> ~diffusion
          /\ run.quantArgs[1].imageQuantization =
               IF diffusion THEN DITHER_ALGO ELSE NEAREST_ALGO
          /\ options.ditherMode = "none" =>
               run.stages = <<"resize", "buildPalette", NEAREST_ALGO>>
     /\ ~(Ran(run, "orderedDither") /\ Ran(run, DITHER_ALGO))

\* C8: in applyPaletteDitherClient and in the worker the stages are selected
\* by ditherMode: the ordered pre-bias iff 'ordered' (the default), error
\* diffusion iff 'diffusion', neither with 'none', never both.
C8_StagesSelectedByDitherMode ==
  StagesFollowMode(client) /\ StagesFollowMode(worker)

\* C8's case: a 'diffusion' run that resized, built its palette and mapped
\* with error diffusion, and an omitted mode would have pre-biased.
C8_Witness ==
  /\ options.ditherMode = "diffusion"
  /\ client.pc = "resolved"
  /\ client.stages = <<"resize", "buildPalette", DITHER_ALGO>>
  /\ worker.pc = "posted"
  /\ worker.stages = <<"resize", "buildPalette", DITHER_ALGO>>

\* The 4x4 matrix as the claim writes it.
ClaimedMatrix ==
  <<<<0, 8, 2, 10>>, <<12, 4, 14, 6>>, <<3, 11, 1, 9>>, <<15, 7, 13, 5>>>>

\* Twice the claimed threshold (M[y mod 4][x mod 4] / 16 - 0.5) * 24.
ClaimedThreshold2(x, y) == 3 * ClaimedMatrix[(y % 4) + 1][(x % 4) + 1] - 24

Dithered == uStep \in {"dithered", "workerDithered"}

\* C9 as claimed: every R, G and B of the output is exactly
\* clamp(channel + threshold, 0, 255).
C9_Original ==
  Dithered =>
    \A x \in 0..(uImage.width - 1), y \in 0..(uImage.height - 1), c \in 0..2 :
      LET index == (y * uImage.width + x) * 4 + c
      IN 2 * uOut[1][index] =
           clamp(2 * uImage.data[index] + ClaimedThreshold2(x, y), 0, 510)

\* C9 amended: every R, G and B of the output is channel + threshold rounded
\* to the nearest integer (a half rounds up) and then clamped into [0, 255],
\* with the threshold of the fixed matrix at (x mod 4, y mod 4), the same
\* for the three channels of a pixel.
C9_RoundedClampedBias ==
  Dithered =>
    \A x \in 0..(uImage.width - 1), y \in 0..(uImage.height - 1), c \in 0..2 :
      LET index == (y * uImage.width + x) * 4 + c
          v2 == 2 * uImage.data[index] + ClaimedThreshold2(x, y)
      IN \E r \in -13..268 :
           /\ 2 * r - 1 <= v2
           /\ v2 < 2 * r + 1
           /\ uOut[1][index] = IF r < 0 THEN 0 ELSE IF r > 255 THEN 255 ELSE r

\* C9's case: a picture wider and higher than the matrix, with a channel
\* whose threshold is a half-integer and whose result is not clamped.
C9_Witness ==
  /\ uStep = "dithered"
  /\ uImage.width > 4
  /\ uImage.height > 4
  /\ \E x \in 0..(uImage.width - 1), y \in 0..(uImage.height - 1), c \in 0..2 :
       LET index == (y * uImage.width + x) * 4 + c
       IN /\ x >= 4
          /\ ClaimedThreshold2(x, y) % 2 = 1
          /\ uOut[1][index] \in 1..254
          /\ uOut[1][index] # uImage.data[index]

\* C10: orderedDither leaves every pixel's alpha unchanged, returns a buffer
\* of the length (and so the dimensions) of its input, and every value of
\* it is in [0, 255].
C10_AlphaLengthRange ==
  Dithered =>
    /\ DOMAIN uOut[1] = DOMAIN uImage.data
    /\ Length(uOut[1]) = uImage.width * uImage.height * 4
    /\ \A p \in 0..(uImage.width * uImage.height - 1) :
         uOut[1][4 * p + 3] = uImage.data[4 * p + 3]
    /\ \A k \in DOMAIN uOut[1] : uOut[1][k] \in 0..255

\* C10's case: a dithered picture with a translucent pixel whose colour
\* changed, and a channel held at 255 by the clamp.
C10_Witness ==
  /\ Dithered
  /\ \E p \in 0..(uImage.width * uImage.height - 1) :
       /\ uImage.data[4 * p + 3] \in 1..254
       /\ uOut[1][4 * p] # uImage.data[4 * p]
  /\ \E p \in 0..(uImage.width * uImage.height - 1), c \in 0..2 :
       /\ uOut[1][4 * p + c] = 255
       /\ 2 * uImage.data[4 * p + c]
            + ClaimedThreshold2(p % uImage.width, p \div uImage.width) > 510

(***************************************************************************)
(* C11, C12: the reduction mode's quantizer and the distance formula.      *)
(***************************************************************************)
\* The mode a request asks for: the omitted mode is 'perceptual'.
RequestedMode ==
  IF options.colorReduction = "undefined" THEN "perceptual"
  ELSE options.colorReduction

RecognisedModes ==
  {"perceptual", "perceptual-plus", "selective", "adaptive", "restrictive"}

\* The table of the five modes; anything else is treated as 'adaptive'.
ClaimedAlgorithm(mode) ==
  CASE mode = "perceptual" -> "wuquant"
    [] mode = "perceptual-plus" -> "neuquant-float"
    [] mode = "selective" -> "neuquant"
    [] mode = "adaptive" -> "wuquant"
    [] mode = "restrictive" -> "rgbquant"
    [] OTHER -> "wuquant"

\* C11: the quantizer handed to the palette builder, by the client and by
\* the worker, is the table's for the requested mode ('perceptual' when the
\* mode is omitted); an unrecognised mode gets wuquant and, the caller
\* naming no formula, the default distance formula (no override).
C11_ReductionTable ==
  \A run \in {client, worker} :
    run.paletteArgs # None =>
      /\ run.colorReduction = RequestedMode
      /\ run.paletteArgs[1].paletteQuantization = ClaimedAlgorithm(RequestedMode)
      /\ (RequestedMode \notin RecognisedModes
            /\ options.colorDistanceFormula = "undefined")
           => run.paletteArgs[1].colorDistanceFormula = "euclidean-bt709"

\* C11 witness: both copies have built a palette for an unrecognised mode.
C11_Witness ==
  /\ options.colorReduction = "sepia"
  /\ options.colorDistanceFormula = "undefined"
  /\ client.paletteArgs # None
  /\ worker.paletteArgs # None
  /\ client.paletteArgs[1].paletteQuantization = "wuquant"

\* The formula both calls (palette build, mapping) of a run were given.
FormulaUsed(run, formula) ==
  /\ run.paletteArgs # None => run.paletteArgs[1].colorDistanceFormula = formula
  /\ run.quantArgs # None => run.quantArgs[1].colorDistanceFormula = formula

\* C12 as claimed: CIEDE2000 in 'perceptual' mode whatever the caller names;
\* in the other modes the caller's formula, else euclidean-bt709.
C12_Original ==
  \A run \in {client, worker} :
    FormulaUsed(run,
      IF RequestedMode = "perceptual" THEN "ciede2000"
      ELSE IF options.colorDistanceFormula # "undefined"
      THEN options.colorDistanceFormula
      ELSE "euclidean-bt709")

\* C12: the formula of both calls is the caller's when the caller names one,
\* in every mode; otherwise CIEDE2000 in 'perceptual' mode and
\* euclidean-bt709 in the others.
C12_CallerFormulaFirst ==
  \A run \in {client, worker} :
    FormulaUsed(run,
      IF options.colorDistanceFormula # "undefined"
      THEN options.colorDistanceFormula
      ELSE IF RequestedMode = "perceptual" THEN "ciede2000"
      ELSE "euclidean-bt709")

\* C12 witness: a 'perceptual' run mapped with the formula the caller named.
C12_Witness ==
  /\ RequestedMode = "perceptual"
  /\ options.colorDistanceFormula = "euclidean"
  /\ client.quantArgs # None
  /\ client.quantArgs[1].colorDistanceFormula = "euclidean"
  /\ worker.quantArgs # None
  /\ client.paletteArgs[1].colorDistanceFormula = "euclidean"

(***************************************************************************)
(* C14: the output's colours are palette entries.                          *)
(***************************************************************************)
\* The entries of a palette.
Entries(palette) == {palette[i] : i \in 1..Len(palette)}

\* round(options.maxColors) clamped into [2, 256], options.maxColors in
\* halves.
EffectiveMaxColors == Max(2, Min(256, (options.maxColors + 1) \div 2))

\* The most colours a call of applyPaletteDither may use: the manual
\* palette's size when one is supplied, else options.maxColors.
NodeColorBound ==
  IF nodeOptions.palette # None /\ Len(nodeOptions.palette[1]) > 0
  THEN Len(nodeOptions.palette[1])
  ELSE nodeOptions.maxColors[1]

\* C14: in every dither mode, every pixel of the output buffer (and of the
\* encoded result) is an entry of the palette of the run, so the output has
\* at most the effective maxColors distinct colours in the browser pipeline,
\* and at most the manual palette's size, or maxColors, in the Node one.
C14_OutputWithinPalette ==
  /\ \A run \in {client, worker} :
       run.outputPixels # None =>
         LET colours == ColorsOf(run.outputPixels[1], run.width * run.height)
         IN /\ colours \subseteq Entries(run.palette)
            /\ Cardinality(colours) <= EffectiveMaxColors
  /\ client.result # None =>
       Cardinality(ColorsOf(client.result[1].blob.data,
                            client.result[1].width * client.result[1].height))
         <= EffectiveMaxColors
  /\ \A i \in 1..Len(posted) :
       posted[i].blob # None =>
         Cardinality(ColorsOf(posted[i].blob[1].data,
                              posted[i].width[1] * posted[i].height[1]))
           <= EffectiveMaxColors
  /\ node.outputPixels # None =>
       LET colours == ColorsOf(node.outputPixels[1],
                               node.decoded[1].width * node.decoded[1].height)
       IN /\ colours \subseteq Entries(node.palette)
          /\ Cardinality(colours) <= NodeColorBound

\* C14 witness: an error-diffused result whose source had more colours than
\* the palette has entries.
C14_Witness ==
  /\ client.pc = "resolved"
  /\ client.ditherMode = "diffusion"
  /\ Cardinality(ColorsOf(client.paletteSource[1], client.width * client.height))
       > client.maxColors
  /\ Cardinality(ColorsOf(client.result[1].blob.data,
                          client.width * client.height)) = client.maxColors

(***************************************************************************)
(* C15: the manual palette of applyPaletteDither.                          *)
(***************************************************************************)
\* A channel given in halves, rounded to the nearest integer (a half goes
\* up) and clamped into [0, 255], said without the code's arithmetic.
ClaimedChannel(value2) ==
  IF value2 < 0 THEN 0
  ELSE IF value2 >= 510 THEN 255
  ELSE CHOOSE c \in 0..255 : 2 * c - 1 <= value2 /\ value2 < 2 * c + 1

\* A supplied entry as the claim says it is used.
ClaimedEntry(color) ==
  <<ClaimedChannel(color[1]), ClaimedChannel(color[2]), ClaimedChannel(color[3]),
    IF Len(color) >= 4 THEN ClaimedChannel(color[4]) ELSE 255>>

ManualPaletteGiven ==
  nodeOptions.palette # None /\ Len(nodeOptions.palette[1]) >= 2

\* C15: applyPaletteDither with a manual palette of at least 2 entries does
\* not call the statistical palette builder; the palette it maps to is
\* exactly the supplied entries, each channel rounded and clamped to
\* [0, 255] and a missing alpha taken as 255; and with dither = false every
\* output pixel is one of these entries.
C15_ManualPaletteUsed ==
  (ManualPaletteGiven /\ node.pc \in {"encode", "resolved"}) =>
    LET supplied == {ClaimedEntry(nodeOptions.palette[1][i]) :
                       i \in 1..Len(nodeOptions.palette[1])}
    IN /\ node.paletteArgs = None
       /\ Entries(node.palette) = supplied
       /\ nodeOptions.dither = Some(FALSE) =>
            ColorsOf(node.outputPixels[1],
                     node.decoded[1].width * node.decoded[1].height)
              \subseteq supplied

\* C15 witness: a finished call with dither = false and the three-entry
\* palette whose first entry (300, -5, 127.5, 128) is used as
\* (255, 0, 128, 128).
C15_Witness ==
  /\ node.pc = "resolved"
  /\ nodeOptions.dither = Some(FALSE)
  /\ ManualPaletteGiven
  /\ Len(nodeOptions.palette[1]) = 3
  /\ <<255, 0, 128, 128>> \in Entries(node.palette)
  /\ node.paletteArgs = None

(***************************************************************************)
(* C16-C18, C20: the processor's lock, load token, cache and failures.     *)
(***************************************************************************)
\* C16: at most one invocation of the pipeline is in flight per processor
\* (the hook useDitherProcessor, the page DitherizerApp): under any
\* interleaving of file selections, resets, slider and input commits,
\* process requests and completions there is never more than one suspended
\* run, a run is in flight exactly while the lock is held, and a request
\* starts a run only when the lock is free (one that finds it held is
\* dropped).
C16_OneRunInFlight ==
  /\ [](/\ Len(hookRuns) <= 1
        /\ hook.processingLockRef <=> Len(hookRuns) = 1
        /\ Len(appRuns) <= 1
        /\ app.processingLockRef <=> Len(appRuns) = 1)
  /\ [][(Len(hookRuns') > Len(hookRuns))
          => (~hook.processingLockRef /\ hookRuns = <<>>)]_vars
  /\ [][(Len(appRuns') > Len(appRuns))
          => (~app.processingLockRef /\ appRuns = <<>>)]_vars

\* C16 witness: a request was dropped while a run holds the lock, in the
\* hook or on the page.
C16_Witness ==
  \/ /\ hookLog.dropped
     /\ hook.processingLockRef
     /\ Len(hookRuns) = 1
     /\ hookRuns[1].pc = "pipeline"
  \/ /\ appLog.dropped
     /\ app.processingLockRef
     /\ Len(appRuns) = 1
     /\ appRuns[1].pc = "pipeline"

\* C17 as claimed: what is published belongs to the selected file: the
\* output URL and size are of a run on that file, the cached buffer and the
\* source size are that file's.
C17_Original ==
  /\ hook.outputUrl # None =>
       /\ hook.outputUrl[1].file = sourceFile
       /\ hook.outputSize # None
  /\ hook.outputSize # None => hook.outputUrl # None
  /\ hook.sourceImageDataRef # None =>
       /\ sourceFile # 0
       /\ hook.sourceImageDataRef = Some(FileImage(sourceFile))
  /\ hook.sourceSize # None =>
       /\ sourceFile # 0
       /\ hook.sourceSize[1].width = FileImage(sourceFile).width
       /\ hook.sourceSize[1].height = FileImage(sourceFile).height

RunFails == Len(hookRuns') < Len(hookRuns) /\ hookLog'.last = "failed"

\* A step in which a run of the hook ends with its result.
RunSucceeds == Len(hookRuns') < Len(hookRuns) /\ hookLog'.last = "done"

\* The same for processImage on the page.
AppRunFails == Len(appRuns') < Len(appRuns) /\ appLog'.last = "failed"

AppRunSucceeds == Len(appRuns') < Len(appRuns) /\ appLog'.last = "done"

\* C20: when a run fails (the decode, the context, the resampling, the
\* mapping or the encoding throws) the error message is recorded and the
\* published outputUrl and outputSize, the URL ref and the object URLs stay
\* as they were; the output changes only by a run that succeeds, by reset
\* (the hook) or by a file selection (the page).
C20_FailureLeavesOutput ==
  /\ [][AppRunFails =>
          /\ app'.error # None
          /\ app'.outputUrl = app.outputUrl
          /\ app'.outputSize = app.outputSize
          /\ app'.outputUrlRef = app.outputUrlRef
          /\ urls' = urls]_vars
  /\ [][(app'.outputUrl # app.outputUrl \/ app'.outputSize # app.outputSize)
          => \/ AppRunSucceeds
             \/ /\ app'.outputUrl = None
                /\ app'.outputSize = None
                /\ app'.sourceFile # app.sourceFile]_vars
  /\ [][RunFails =>
          /\ hook'.error # None
          /\ hook'.outputUrl = hook.outputUrl
          /\ hook'.outputSize = hook.outputSize
          /\ hook'.outputUrlRef = hook.outputUrlRef
          /\ urls' = urls]_vars
  /\ [][(hook'.outputUrl # hook.outputUrl \/ hook'.outputSize # hook.outputSize)
          => \/ RunSucceeds
             \/ /\ hook'.outputUrl = None
                /\ hook'.outputSize = None
                /\ hook'.loadTokenRef = hook.loadTokenRef + 1]_vars

\* C20 witness: a run has failed, its message is recorded, and the output
\* published before is still there, not revoked.
C20_Witness ==
  \/ /\ hookLog.last = "failed"
     /\ hookRuns = <<>>
     /\ hook.error = Some("Failed to encode image")
     /\ hook.outputUrl # None
     /\ hook.outputSize # None
     /\ hook.outputUrl[1].id \notin urls.revoked
  \/ /\ appLog.last = "failed"
     /\ appRuns = <<>>
     /\ app.error = Some("Failed to encode image")
     /\ app.outputUrl # None
     /\ app.outputSize # None

(***************************************************************************)
(* C19: a refused 2D context.                                              *)
(***************************************************************************)
\* C19: when the host refuses a 2D context at any of the three points of
\* applyPaletteDitherClient (source canvas, target canvas, output canvas),
\* the call fails with 'Canvas context unavailable' and has no result; the
\* refused call is the last one made (no retry), nothing runs after it (no
\* resampling, palette or mapping after a refusal in resizeImageData), and
\* the failed call stays failed.
C19_NoContextNoResult ==
  /\ [](/\ Len(client.contexts) <= 3
        /\ (\E i \in 1..Len(client.contexts) : ~client.contexts[i]) =>
             /\ client.pc = "rejected"
             /\ client.error = "Canvas context unavailable"
             /\ client.result = None
             /\ ~client.contexts[Len(client.contexts)]
             /\ \A i \in 1..(Len(client.contexts) - 1) : client.contexts[i]
             /\ Len(client.contexts) <= 2 =>
                  /\ client.stages = <<>>
                  /\ client.resized = None
                  /\ client.outputPixels = None)
  /\ [][client.pc = "rejected" => client' = client]_vars

\* C19 witness: the output canvas's context was refused after the two of
\* the resampler were granted and the mapping had run.
C19_Witness ==
  /\ client.contexts = <<TRUE, TRUE, FALSE>>
  /\ client.pc = "rejected"
  /\ client.error = "Canvas context unavailable"
  /\ client.outputPixels # None
  /\ client.result = None

(***************************************************************************)
(* C21: the scale bounds of the page and of the pipeline.                  *)
(***************************************************************************)
\* The run of the page that the step completes with a published result.
AppRunPublished(i) ==
  /\ appRuns[i].pc = "pipeline"
  /\ appRuns' = Remove(appRuns, i)
  /\ appLog'.last = "done"
  /\ app'.outputUrl # app.outputUrl

\* C21 as claimed: every scale the page can commit lies in the range the
\* pipeline clamps to, so the pipeline resolves the committed scale to
\* itself, and the size shown when a run has published its output is
\* max(1, round(sourceDim * committedScale)) in each dimension.
C21_Original ==
  /\ [](appLog.last # "off" =>
          clientScale(AppOptions(app.maxColorsRef, app.scaleRef)) = app.scaleRef)
  /\ [][\A i \in 1..Len(appRuns) :
          AppRunPublished(i) =>
            displayOutputSize(app') =
              Some([width |-> TargetDim(FileImage(appRuns[i].file).width,
                                        appRuns[i].scale),
                    height |-> TargetDim(FileImage(appRuns[i].file).height,
                                         appRuns[i].scale)])]_vars

(***************************************************************************)
(* C22: one buffer for the palette and for the mapping.                    *)
(***************************************************************************)
\* The buffer the claim names for a run: the pre-biased one in 'ordered'
\* mode (also the mode of a request that names none), else the resampled.
ClaimedBuffer(run, biased) ==
  IF options.ditherMode \in {"ordered", "undefined"} THEN biased
  ELSE run.resized[1].data

\* C22 for one run, `biased` being the pre-bias of its resampled buffer.
OneBufferForBoth(run, biased) ==
  /\ run.paletteInput # None => run.paletteInput[1] = ClaimedBuffer(run, biased)
  /\ run.mapInput # None =>
       /\ run.mapInput = run.paletteInput
       /\ run.mapInput[1] = ClaimedBuffer(run, biased)

\* C22: in applyPaletteDitherClient and in the worker, the buffer the
\* palette is built from is the buffer that is then mapped: the pre-biased
\* buffer in 'ordered' mode, the resampled buffer in the other modes.
C22_PaletteFromMappedBuffer ==
  /\ client.resized # None =>
       OneBufferForBoth(client, orderedDither(client.resized[1].data,
                                              client.width, client.height))
  /\ worker.resized # None =>
       OneBufferForBoth(worker, workerOrderedDither(worker.resized[1].data,
                                                    worker.width, worker.height))

\* C22 witness: an 'ordered' run of each copy has mapped a buffer that the
\* pre-bias changed.
C22_Witness ==
  /\ options.ditherMode = "ordered"
  /\ client.mapInput # None
  /\ worker.mapInput # None
  /\ client.mapInput[1] # client.resized[1].data
  /\ worker.mapInput[1] # worker.resized[1].data

(***************************************************************************)
(* C23: no stage writes to the buffer it reads.                            *)
(***************************************************************************)
\* C23: no step of applyPaletteDitherClient changes a buffer an earlier
\* step produced or the caller supplied: the caller's ImageData holds the
\* same bytes at every step up to the return or the failure, the resampled
\* buffer is not changed by the pre-bias (orderedDither writes to its own
\* output), and the palette source is not changed by the mapping.
C23_InputsNotMutated ==
  /\ [][client.pc # "off" => imageData' = imageData]_vars
  /\ [][client.resized # None => client'.resized = client.resized]_vars
  /\ [][client.paletteSource # None =>
          client'.paletteSource = client.paletteSource]_vars

\* C23 witness: an 'ordered' call has returned; the pre-bias gave a buffer
\* other than the resampled one and the mapping a buffer other than the
\* pre-biased one.
C23_Witness ==
  /\ client.pc = "resolved"
  /\ client.ditherMode = "ordered"
  /\ client.paletteSource[1] # client.resized[1].data
  /\ client.outputPixels[1] # client.paletteSource[1]

(***************************************************************************)
(* C24: buffer lengths and dimensions.                                     *)
(***************************************************************************)
\* A buffer of exactly width * height * 4 bytes.
HasLength(buf, width, height) == DOMAIN buf = 0..(width * height * 4 - 1)

\* C24 for one run: every buffer produced so far has width * height * 4
\* bytes for the dimensions the resampler returned, and those dimensions
\* are the ones of the resampled picture and of the result.
DimensionsTravel(run) ==
  /\ run.resized # None =>
       /\ run.resized[1].width = run.width
       /\ run.resized[1].height = run.height
       /\ run.width = Max(1, RoundScaled(imageData.width, run.scale))
       /\ run.height = Max(1, RoundScaled(imageData.height, run.scale))
       /\ HasLength(run.resized[1].data, run.width, run.height)
  /\ run.paletteSource # None =>
       HasLength(run.paletteSource[1], run.width, run.height)
  /\ run.outputPixels # None =>
       HasLength(run.outputPixels[1], run.width, run.height)
  /\ run.result # None =>
       /\ run.result[1].width = run.resized[1].width
       /\ run.result[1].height = run.resized[1].height
       /\ run.result[1].blob.width = run.resized[1].width
       /\ run.result[1].blob.height = run.resized[1].height
       /\ HasLength(run.result[1].blob.data, run.result[1].width,
                    run.result[1].height)

\* C24: at every stage boundary of the browser pipeline (both copies) the
\* buffer has length width * height * 4 for the dimensions that travel
\* with it, and the width and height of the result are the ones the
\* resampler produced: the pre-bias and the mapping change no dimension.
C24_LengthMatchesDimensions ==
  /\ imageData.width >= 1 /\ imageData.height >= 1
  /\ HasLength(imageData.data, imageData.width, imageData.height)
  /\ DimensionsTravel(client)
  /\ DimensionsTravel(worker)

\* C24 witness: an 'ordered' call has returned a picture smaller than the
\* caller's, after the pre-bias and the mapping.
C24_Witness ==
  /\ client.pc = "resolved"
  /\ client.ditherMode = "ordered"
  /\ client.result[1].width < imageData.width
  /\ client.result[1].height < imageData.height
  /\ client.stages = <<"resize", "orderedDither", "buildPalette", NEAREST_ALGO>>

(***************************************************************************)
(* C25: what lastProcessedRef remembers.                                   *)
(***************************************************************************)
\* C25 as claimed: a commit that is dropped at the lock is not recorded in
\* lastProcessedRef: a step of the page in which the request is dropped
\* leaves lastProcessedRef as it was.
C25_Original ==
  [][appLog'.dropped => app'.lastProcessedRef = app.lastProcessedRef]_vars

(***************************************************************************)
(* C26: a new file on the page.                                            *)
(***************************************************************************)
\* C26 as claimed: a step that selects a new source file while no run is in
\* flight starts a run for that file.
C26_Original ==
  [][(/\ appLog.last # "off"
      /\ appRuns = <<>>
      /\ app'.sourceFile # app.sourceFile
      /\ app'.sourceFile # 0)
     => (/\ Len(appRuns') = 1
         /\ appRuns'[1].file = app'.sourceFile
         /\ app'.isProcessing)]_vars

(***************************************************************************)
(* C27: the object URLs of the page.                                       *)
(***************************************************************************)
\* C27 as claimed: the URLs held in sourceUrl and outputUrl of the page have
\* not been passed to URL.revokeObjectURL.
C27_Original ==
  appLog.last # "off" =>
    /\ app.sourceUrl # None => app.sourceUrl[1].id \notin urls.revoked
    /\ app.outputUrl # None => app.outputUrl[1].id \notin urls.revoked

(***************************************************************************)
(* C28: the lock is released.                                              *)
(***************************************************************************)
\* C28: in the hook and on the page the lock is held exactly while a
\* started run is suspended at an await, and isProcessing with it: every
\* exit of a run (result, error, stale decode) releases both; so, the host
\* answering every awaited call, a held lock is always followed by a state
\* with the lock free and isProcessing false.
C28_LockReleased ==
  /\ [](/\ hook.processingLockRef <=> Len(hookRuns) > 0
        /\ hook.isProcessing <=> hook.processingLockRef
        /\ app.processingLockRef <=> Len(appRuns) > 0
        /\ app.isProcessing <=> app.processingLockRef)
  /\ (hook.processingLockRef
        ~> (~hook.processingLockRef /\ ~hook.isProcessing))
  /\ (app.processingLockRef
        ~> (~app.processingLockRef /\ ~app.isProcessing))

\* C28 witness: a run of the hook has ended at the stale return (the file
\* changed while it was decoding) and the lock is free again.
C28_Witness ==
  /\ hookLog.last = "stale"
  /\ ~hook.processingLockRef
  /\ ~hook.isProcessing
  /\ hookRuns = <<>>
  /\ hook.loadTokenRef > 1

(***************************************************************************)
(* C29: the worker's replies.                                              *)
(***************************************************************************)
\* A reply of one of the two shapes: {error} alone, or {blob, width,
\* height} alone.
IsErrorReply(msg) ==
  msg.error # None /\ msg.blob = None /\ msg.width = None /\ msg.height = None

IsResultReply(msg) ==
  msg.error = None /\ msg.blob # None /\ msg.width # None /\ msg.height # None

\* C29: the worker posts exactly one reply per message: while the handler
\* runs on message n, n - 1 replies have been posted; when it has ended, n
\* have; a reply is {blob, width, height} when the handler reached line 189
\* and {error: message} when anything failed (a refused context included),
\* never both; and after a failed message the handler takes the next one
\* from its first line.
C29_OneReplyPerRequest ==
  /\ [](/\ worker.pc \in {"posted", "failed"} => Len(posted) = worker.request
        /\ worker.pc \notin {"posted", "failed"} => Len(posted) = worker.request - 1
        /\ \A i \in 1..Len(posted) :
             IsErrorReply(posted[i]) \/ IsResultReply(posted[i])
        /\ worker.pc = "failed" =>
             /\ IsErrorReply(posted[Len(posted)])
             /\ posted[Len(posted)].error = Some(worker.error)
        /\ worker.pc = "posted" =>
             /\ IsResultReply(posted[Len(posted)])
             /\ posted[Len(posted)].blob = Some(worker.result[1].blob))
  /\ [][(worker.pc \in {"posted", "failed"} /\ worker' # worker) =>
          (worker' = [RunInit EXCEPT !.request = worker.request + 1]
           /\ posted' = posted)]_vars

\* C29 witness: the first message failed at the output canvas's context and
\* was answered with the error; the second was answered with a result.
C29_Witness ==
  /\ Len(posted) = 2
  /\ posted[1] = ErrorMessage("Canvas context unavailable")
  /\ IsResultReply(posted[2])
  /\ worker.pc = "posted"

(***************************************************************************)
(* C30: the two copies of the browser pipeline.                            *)
(***************************************************************************)
\* The run has resolved its configuration.
Configured(run) == run.pc \notin {"config", "off"}

\* C30: on the same pixels, dimensions and options, applyPaletteDitherClient
\* and the worker's handler resolve the same configuration (scale within
\* [0.1, 1], colour count within [2, 256], the same defaults, quantizer and
\* distance formula), run the same stages in the same order, and produce
\* the same resampled buffer, palette source, palette, output pixels,
\* dimensions and result.
C30_ClientWorkerEquivalent ==
  /\ (Configured(client) /\ Configured(worker)) =>
       /\ client.scale = worker.scale
       /\ client.scale >= 10 /\ client.scale <= 100
       /\ client.maxColors = worker.maxColors
       /\ client.maxColors >= 2 /\ client.maxColors <= 256
       /\ client.ditherMode = worker.ditherMode
       /\ client.colorReduction = worker.colorReduction
       /\ client.paletteQuantization = worker.paletteQuantization
       /\ client.colorDistanceFormula = worker.colorDistanceFormula
  /\ (client.resized # None /\ worker.resized # None) =>
       /\ client.resized = worker.resized
       /\ client.width = worker.width
       /\ client.height = worker.height
  /\ (client.paletteSource # None /\ worker.paletteSource # None) =>
       client.paletteSource = worker.paletteSource
  /\ (client.paletteArgs # None /\ worker.paletteArgs # None) =>
       /\ client.paletteArgs = worker.paletteArgs
       /\ client.palette = worker.palette
  /\ (client.outputPixels # None /\ worker.outputPixels # None) =>
       /\ client.quantArgs = worker.quantArgs
       /\ client.outputPixels = worker.outputPixels
       /\ client.stages = worker.stages
  /\ (client.pc = "resolved" /\ worker.pc = "posted") =>
       /\ client.result = worker.result
       /\ posted = <<[error |-> None, blob |-> Some(client.result[1].blob),
                      width |-> Some(client.result[1].width),
                      height |-> Some(client.result[1].height)]>>

\* C30 witness: both copies have answered a request for scale 25 on a
\* picture wider than one pixel, at the picture's own size.
C30_Witness ==
  /\ options.scale = Some(2500)
  /\ imageData.width > 1
  /\ client.pc = "resolved"
  /\ worker.pc = "posted"
  /\ client.result[1].width = imageData.width
  /\ worker.result[1].width = imageData.width

====
